---- MODULE Spec2Model ----
(***************************************************************************)
(* Model of the goshu module registry, event bus and command router        *)
(* (src/gbot/modules.py) together with the load/unload/reload command of   *)
(* src/modules/modules.py.                                                 *)
(*                                                                         *)
(* Python strings that the code parses (messages, command and module       *)
(* names) are sequences of one-character strings; names that are only      *)
(* compared (nicks, channels, identifiers of source files, function        *)
(* names) are atoms.  Python dicts are functions whose DOMAIN is the key   *)
(* set; None is the empty sequence.                                        *)
(***************************************************************************)
EXTENDS Integers, Sequences, FiniteSets, TLC

(***************************************************************************)
(* Bounds of the model.                                                    *)
(***************************************************************************)
\* most entries the global admin table may hold before a further load is
\* no longer explored (a failed load leaks entries, so the table is unbounded)
MaxGlobalEntries == 3

\* most load requests made before the bus starts to dispatch events
MaxStartupLoads == 2

(***************************************************************************)
(* Dict and list helpers.                                                  *)
(***************************************************************************)
EmptyMap == << >>

Put(f, k, v) == [x \in (DOMAIN f) \cup {k} |-> IF x = k THEN v ELSE f[x]]

Del(f, k) == [x \in (DOMAIN f) \ {k} |-> f[x]]

\* dict.get(k, default)
Get(f, k, default) == IF k \in DOMAIN f THEN f[k] ELSE default

InSeq(x, s) == \E i \in 1..Len(s) : s[i] = x

\* index of the first element equal to x (x is in s)
FirstIndex(s, x) == CHOOSE i \in 1..Len(s) : s[i] = x /\ \A j \in 1..(i - 1) : s[j] # x

\* list.remove(x): drops the first element equal to x (x is in s)
RemoveFirst(s, x) ==
    LET i == FirstIndex(s, x)
    IN  SubSeq(s, 1, i - 1) \o SubSeq(s, i + 1, Len(s))

RECURSIVE SumLens(_, _)
SumLens(f, keys) ==
    IF keys = {} THEN 0
    ELSE LET k == CHOOSE x \in keys : TRUE
         IN  Len(f[k]) + SumLens(f, keys \ {k})

RECURSIVE SortedIntsDescending(_)
\* a sort that yields the largest key first
SortedIntsDescending(S) ==
    IF S = {} THEN << >>
    ELSE LET m == CHOOSE x \in S : \A y \in S : x >= y
         IN  <<m>> \o SortedIntsDescending(S \ {m})

RECURSIVE SortedInts(_)
\* sorted(keys) of a set of integers
SortedInts(S) ==
    IF S = {} THEN << >>
    ELSE LET m == CHOOSE x \in S : \A y \in S : x <= y
         IN  <<m>> \o SortedInts(S \ {m})

(***************************************************************************)
(* Privilege levels (gbot/users.py) and listener priorities.               *)
(***************************************************************************)
USER_LEVEL_NOPRIVS == 0
USER_LEVEL_USER == 1
USER_LEVEL_ADMIN == 2
\* the level a token of a descriptor names
user_levels == [noprivs |-> USER_LEVEL_NOPRIVS, user |-> USER_LEVEL_USER,
                admin |-> USER_LEVEL_ADMIN]

LISTENER_HIGH_PRIORITY == -10
LISTENER_NORMAL_PRIORITY == 0
LISTENER_LOW_PRIORITY == 10

\* the names a listen directive may give for a priority
listener_priorities ==
    [highest |-> 0 - 30, higher |-> 0 - 20, high |-> LISTENER_HIGH_PRIORITY,
     normal |-> LISTENER_NORMAL_PRIORITY, low |-> LISTENER_LOW_PRIORITY,
     lower |-> 20, lowest |-> 30]

(***************************************************************************)
(* Docstrings.  A docstring is the sequence of its lines; a line that      *)
(* starts with @ is a directive name and the text after the first blank,   *)
(* any other line has the name "".  A text is a sequence of lexemes: words *)
(* and runs of whitespace.  A Python value whose type the code tests is a  *)
(* record of its type and its value.                                       *)
(***************************************************************************)
\* the runs of whitespace of the texts
Blanks == {" ", "  ", "\t"}

\* val.split()
Words(val) == SelectSeq(val, LAMBDA x : x \notin Blanks)

RECURSIVE StripBlanks(_)
\* val.strip()
StripBlanks(val) ==
    IF val # << >> /\ Head(val) \in Blanks THEN StripBlanks(Tail(val))
    ELSE IF val # << >> /\ val[Len(val)] \in Blanks
    THEN StripBlanks(SubSeq(val, 1, Len(val) - 1))
    ELSE val

\* val.lower()
LowerWords(val) ==
    [i \in 1..Len(val) |-> CASE val[i] = "Hi" -> "hi" [] val[i] = "Yo" -> "yo" [] OTHER -> val[i]]

RECURSIVE Repr(_, _)
\* str(items) of a list of texts, from item i on
Repr(items, i) ==
    IF i > Len(items) THEN <<"]">>
    ELSE (IF i > 1 THEN <<",", " ">> ELSE <<"[">>) \o <<"'">> \o items[i] \o <<"'">>
             \o Repr(items, i + 1)

\* the exception a directive raises
DocRaised(why) == [ok |-> FALSE, why |-> why, info |-> << >>]

\* a listen directive that recognises the inline token in first place only
ListenDirectiveInlineFirstOnly(info, val) ==
    LET words == Words(val)
        inline == words # << >> /\ words[1] = "inline"
        values == IF inline THEN Tail(words) ELSE words
        \* int(priority) of a word: ValueError unless the word is a numeral
        numerals == ("5" :> 5) @@ ("-15" :> (0 - 15))
        done(direction, event_type, priority) ==
            [ok |-> TRUE, why |-> "",
             info |-> Put(Put(Put(Put(info, "inline", inline), "priority", priority),
                              "direction", direction), "event_type", event_type)]
    IN  IF Len(values) < 2
        THEN IF values = << >> THEN DocRaised("IndexError")
             ELSE done("in", values[1], LISTENER_NORMAL_PRIORITY)
        ELSE IF Len(values) > 2
        THEN IF Len(values) # 3 THEN DocRaised("ValueError")
             ELSE IF values[3] \in DOMAIN listener_priorities
             THEN done(values[1], values[2], listener_priorities[values[3]])
             ELSE IF values[3] \in DOMAIN numerals
             THEN done(values[1], values[2], numerals[values[3]])
             ELSE DocRaised("ValueError")
        ELSE done(values[1], values[2], LISTENER_NORMAL_PRIORITY)

\* the branch `elif name == 'listen'`: the descriptor info becomes
ListenDirective(info, val) ==
    LET words == Words(val)
        inline == InSeq("inline", words)
        values == IF inline THEN RemoveFirst(words, "inline") ELSE words
        \* int(priority) of a word: ValueError unless the word is a numeral
        numerals == ("5" :> 5) @@ ("-15" :> (0 - 15))
        done(direction, event_type, priority) ==
            [ok |-> TRUE, why |-> "",
             info |-> Put(Put(Put(Put(info, "inline", inline), "priority", priority),
                              "direction", direction), "event_type", event_type)]
    IN  IF Len(values) < 2
        THEN IF values = << >> THEN DocRaised("IndexError")
             ELSE done("in", values[1], LISTENER_NORMAL_PRIORITY)
        ELSE IF Len(values) > 2
        THEN IF Len(values) # 3 THEN DocRaised("ValueError")
             ELSE IF values[3] \in DOMAIN listener_priorities
             THEN done(values[1], values[2], listener_priorities[values[3]])
             ELSE IF values[3] \in DOMAIN numerals
             THEN done(values[1], values[2], numerals[values[3]])
             ELSE DocRaised("ValueError")
        ELSE done(values[1], values[2], LISTENER_NORMAL_PRIORITY)

RECURSIVE ExtractListenersSharedInfo(_, _, _, _, _)
\* a reader that goes on with the descriptor it has just appended: the
\* descriptors of one docstring are then one dict, that of the last directive
ExtractListenersSharedInfo(handler, lines, i, info, listeners) ==
    IF i > Len(lines) THEN [ok |-> TRUE, why |-> "",
                            listeners |-> [j \in 1..Len(listeners) |-> info]]
    ELSE IF lines[i].name = "" THEN ExtractListenersSharedInfo(handler, lines, i + 1, info,
                                                               listeners)
    ELSE IF lines[i].name = "listen"
    THEN LET r == ListenDirective(info, lines[i].val)
         IN  IF r.ok
             THEN ExtractListenersSharedInfo(handler, lines, i + 1, r.info,
                                             Append(listeners, r.info))
             ELSE [ok |-> FALSE, why |-> r.why, listeners |-> << >>]
    ELSE ExtractListenersSharedInfo(handler, lines, i + 1,
                                    Put(info, lines[i].name, lines[i].val), listeners)

RECURSIVE ExtractListeners(_, _, _, _, _)
\* extract_mod_info_from_docstring(docstring, None, handler) from line i on
ExtractListeners(handler, lines, i, info, listeners) ==
    IF i > Len(lines) THEN [ok |-> TRUE, why |-> "", listeners |-> listeners]
    ELSE IF lines[i].name = "" THEN ExtractListeners(handler, lines, i + 1, info, listeners)
    ELSE IF lines[i].name = "listen"
    THEN LET r == ListenDirective(info, lines[i].val)
         IN  IF r.ok
             THEN ExtractListeners(handler, lines, i + 1, ("call" :> handler),
                                   Append(listeners, r.info))
             ELSE [ok |-> FALSE, why |-> r.why, listeners |-> << >>]
    ELSE ExtractListeners(handler, lines, i + 1, Put(info, lines[i].name, lines[i].val),
                          listeners)

\* info['aliases'][alias_name] = alias_desc, the dict as its items in insertion order
PutAlias(aliases, alias_name, alias_desc) ==
    IF \E i \in 1..Len(aliases) : aliases[i][1] = alias_name
    THEN [i \in 1..Len(aliases) |->
             IF aliases[i][1] = alias_name THEN <<alias_name, alias_desc>> ELSE aliases[i]]
    ELSE Append(aliases, <<alias_name, alias_desc>>)

\* the branch `if name == 'alias'`
AliasDirective(info, val) ==
    IF InSeq("---", val)
    THEN LET i == FirstIndex(val, "---")
             alias_name == StripBlanks(SubSeq(val, 1, i - 1))
             rest == SubSeq(val, i + 1, Len(val))
         IN  IF InSeq("---", rest) THEN DocRaised("ValueError")
             ELSE [ok |-> TRUE, why |-> "",
                   info |-> Put(info, "aliases",
                                PutAlias(info.aliases, alias_name, StripBlanks(rest)))]
    ELSE [ok |-> TRUE, why |-> "",
          info |-> Put(info, "name", Append(info.name, LowerWords(StripBlanks(val))))]

RECURSIVE ExtractDirectives(_, _, _)
\* the loop over the lines of a command's docstring, from line i on
ExtractDirectives(lines, i, info) ==
    IF i > Len(lines) THEN [ok |-> TRUE, why |-> "", info |-> info]
    ELSE IF lines[i].name = "" THEN ExtractDirectives(lines, i + 1, info)
    ELSE IF lines[i].name = "alias"
    THEN LET r == AliasDirective(info, lines[i].val)
         IN  IF r.ok THEN ExtractDirectives(lines, i + 1, r.info) ELSE r
    ELSE IF lines[i].name \in {"channel_mode_restriction", "chanrestrict", "chan_restrict"}
    THEN ExtractDirectives(lines, i + 1, Put(info, "channel_mode_restriction", lines[i].val))
    ELSE IF lines[i].name = "usage"
    THEN ExtractDirectives(lines, i + 1,
                           Put(info, "usage", Append(Get(info, "usage", << >>), lines[i].val)))
    ELSE IF lines[i].name = "description"
    THEN ExtractDirectives(lines, i + 1,
                           Put(info, "description",
                               [type |-> "list",
                                value |-> Append(info.description.value, lines[i].val)]))
    ELSE IF lines[i].name = "listen" THEN DocRaised("NameError")
    ELSE ExtractDirectives(lines, i + 1, Put(info, lines[i].name, lines[i].val))

\* the description once the loop is over: '{} --- {}'.format(use, desc) for each
\* usage line, or else the text that '--- {}'.format(list) makes of the list
Described(info) ==
    IF Get(info, "usage", << >>) # << >>
    THEN LET desc_lines == info.description.value
             desc(i) == IF Len(desc_lines) >= i THEN desc_lines[i]
                        ELSE desc_lines[Len(desc_lines)]
         IN  Put(Del(info, "usage"), "description",
                 [type |-> "list",
                  value |-> [i \in 1..Len(info.usage) |->
                                info.usage[i] \o <<" ", "---", " ">> \o desc(i)]])
    ELSE IF info.description.value # << >>
    THEN Put(info, "description",
             [type |-> "str", value |-> <<"---", " ">> \o Repr(info.description.value, 1)])
    ELSE info

RECURSIVE AliasInfos(_, _, _, _)
\* module_dict[name] = new_info for each alias that has its own description
AliasInfos(info, aliases, i, module_dict) ==
    IF i > Len(aliases) THEN module_dict
    ELSE LET new_info == Put(Put(info, "name", <<aliases[i][1]>>), "description",
                             [type |-> "str", value |-> aliases[i][2]])
         IN  AliasInfos(info, aliases, i + 1,
                        IF \E j \in 1..Len(module_dict) : module_dict[j][1] = aliases[i][1]
                        THEN [j \in 1..Len(module_dict) |->
                                 IF module_dict[j][1] = aliases[i][1]
                                 THEN <<aliases[i][1], new_info>> ELSE module_dict[j]]
                        ELSE Append(module_dict, <<aliases[i][1], new_info>>))

\* extract_mod_info_from_docstring(docstring, name, handler) of a command: the
\* dict it returns, as its items in insertion order
ExtractCommand(name, handler, lines) ==
    IF Len(lines) < 2
    THEN [ok |-> TRUE, why |-> "",
          module_dict |->
              << <<name, [name |-> <<name>>,
                          description |->
                              [type |-> "list",
                               value |-> << <<"---", " ">> \o StripBlanks(lines[1].val) >>],
                          call |-> handler]>> >>]
    ELSE LET r == ExtractDirectives(lines, 1,
                                    [name |-> <<name>>, aliases |-> << >>, call |-> handler,
                                     description |->
                                         [type |-> "list",
                                          value |-> <<StripBlanks(lines[1].val)>>]])
         IN  IF ~r.ok THEN [ok |-> FALSE, why |-> r.why, module_dict |-> << >>]
             ELSE [ok |-> TRUE, why |-> "",
                   module_dict |->
                       AliasInfos(Del(Described(r.info), "aliases"), r.info.aliases, 1,
                                  << <<r.info.name[1], Del(Described(r.info), "aliases")>> >>)]

\* cmd_class(call=call, description=description, base_name=info['name'][0], alias=alias)
Descriptor(info, alias) ==
    [call |-> info.call,
     description |-> IF info.description.type = "str" THEN <<info.description.value>>
                     ELSE info.description.value,
     channel_mode_restriction |-> Get(info, "channel_mode_restriction", << >>),
     base_name |-> info.name[1], alias |-> alias]

\* return_command_dict(base, info) of a parsed info: the first name, then
\* the others as aliases of it
CommandDict(info) ==
    [k \in {info.name[i] : i \in 1..Len(info.name)} |->
        IF \E i \in 2..Len(info.name) : info.name[i] = k
        THEN Descriptor(info, info.name[1])
        ELSE Descriptor(info, << >>)]

RECURSIVE StaticCommands(_, _, _)
\* for cmd_name, cmd_info in info.items(): self.static_commands.update(cmd)
StaticCommands(module_dict, i, static_commands) ==
    IF i > Len(module_dict) THEN static_commands
    ELSE LET cmd == CommandDict(module_dict[i][2])
         IN  StaticCommands(module_dict, i + 1,
                            [k \in DOMAIN static_commands \cup DOMAIN cmd |->
                                IF k \in DOMAIN cmd THEN cmd[k] ELSE static_commands[k]])

\* extract_mod_info_from_docstring(docstring, name, handler); name is << >> for
\* None, the docstring of a listener
extract_mod_info_from_docstring(docstring, name, handler) ==
    IF name = << >> THEN ExtractListeners(handler, docstring, 1, ("call" :> handler), << >>)
    ELSE ExtractCommand(name, handler, docstring)

\* the fixed registry of reusable admin commands (gbot/commands.py)
standard_admin_commands == {<<"i">>}

\* no docstring is being read
NoExtract == [name |-> << >>, handler |-> "", doc |-> << >>, done |-> FALSE, out |-> << >>,
              commands |-> << >>]

(***************************************************************************)
(* The module source files on disk.  ClassDef(ident) is what               *)
(* importlib.import_module(ident) provides: the first Module subclass of   *)
(* the file, given by its members in inspect.getmembers order, or no       *)
(* module at all.                                                          *)
(*   acmds     : acmd_* members  (name, global flag, call level, bound)    *)
(*   cmds      : cmd_* members and their aliases                           *)
(*   std       : the class attribute standard_admin_commands               *)
(*   dynamic   : the directory ./modules/<name> when the bot starts: the   *)
(*               items (key, names, call level) of its command files       *)
(***************************************************************************)
Idents == {"alpha", "alpha2", "beta", "bad", "empty"}

\* a bound method of the module instance created from source file ident
H(ident, fn) == <<ident, fn>>

ACmd(name, fn, glob, lvl, bound) ==
    [name |-> name, fn |-> fn, global |-> glob, call_level |-> lvl, bound |-> bound]

Cmd(name, fn, lvl, chanmode, chans, users) ==
    [name |-> name, fn |-> fn, call_level |-> lvl, channel_mode_restriction |-> chanmode,
     channel_whitelist |-> chans, user_whitelist |-> users]

\* the *_listener members of the class of a source file and their docstrings
ListenerMembers(ident) ==
    LET text(words) == [name |-> "", val |-> words]
        listen(val) == [name |-> "listen", val |-> val]
    IN  CASE ident = "alpha" ->
               << <<"log_listener", << text(<<"Logs", " ", "events">>),
                                       listen(<<"both", " ", "all", " ", "low">>),
                                       listen(<<"in", " ", "privmsg", " ", "low">>),
                                       listen(<<"in", "  ", "pubmsg", " ", "high">>) >> >>,
                  <<"mend_listener", << listen(<<"in", " ", "privmsg", " ", "inline", " ",
                                                 "high">>) >> >> >>
          [] ident = "alpha2" ->
               << <<"x_listener", << listen(<<"out", " ", "privmsg">>),
                                     listen(<<"out", " ", "privmsg">>) >> >> >>
          [] ident = "beta" ->
               << <<"in_listener", << listen(<<"inline", " ", "all">>),
                                      listen(<<"in", " ", "privmsg", " ", "low">>) >> >>,
                  <<"priv_listener", << text(<<"Private", " ", "messages">>),
                                        listen(<<"privmsg">>) >> >>,
                  <<"pub_listener", << listen(<<"in", " ", "pubmsg">>),
                                       listen(<<"both", "\t", "pubmsg", " ", "normal">>) >> >> >>
          [] ident = "bad" ->
               << <<"z_listener", << listen(<<"in", " ", "privmsg">>) >> >> >>
          [] OTHER -> << >>

RECURSIVE MemberListens(_, _)
\* for listener in extract_mod_info_from_docstring(handler.__doc__, None, handler):
\* the descriptors of the members from member i on
MemberListens(members, i) ==
    IF i > Len(members) THEN << >>
    ELSE LET info == extract_mod_info_from_docstring(members[i][2], << >>,
                                                     members[i][1]).listeners
         IN  [j \in 1..Len(info) |->
                 [fn |-> info[j].call, inline |-> info[j].inline,
                  direction |-> info[j].direction, event_type |-> info[j].event_type,
                  priority |-> info[j].priority]]
                 \o MemberListens(members, i + 1)

NoClass == [has |-> FALSE, name |-> << >>, acmds |-> << >>, cmds |-> << >>,
            std |-> << >>, dynamic |-> [exists |-> FALSE, json |-> << >>]]

ClassDef(ident) ==
    CASE ident = "alpha" ->
           [has |-> TRUE, name |-> <<"m">>,
            acmds |-> << ACmd(<<"g">>, "acmd_g", TRUE, "admin", TRUE),
                         ACmd(<<"l">>, "acmd_l", FALSE, "user", TRUE) >>,
            cmds |-> << Cmd(<<"*">>, "cmd_any", "", << >>, << >>, {}),
                        Cmd(<<"c">>, "cmd_c", "", <<"o">>, << >>, {}),
                        Cmd(<<"k">>, "cmd_any", "", << >>, << >>, {}),
                        Cmd(<<"s">>, "cmd_s", "user", << >>, << >>, {}) >>,
            std |-> << >>, dynamic |-> NoClass.dynamic]
      [] ident = "alpha2" ->
           [has |-> TRUE, name |-> <<"m">>,
            acmds |-> << ACmd(<<"h">>, "acmd_h", TRUE, "admin", TRUE) >>,
            cmds |-> << Cmd(<<"v">>, "cmd_v", "boss", << >>, << >>, {}) >>,
            std |-> << >>, dynamic |-> NoClass.dynamic]
      [] ident = "beta" ->
           [has |-> TRUE, name |-> <<"n">>,
            acmds |-> << ACmd(<<"m">>, "acmd_m", TRUE, "user", FALSE) >>,
            cmds |-> << Cmd(<<"c">>, "cmd_c", "admin", << >>, << >>, {}),
                        Cmd(<<"u">>, "cmd_u", "", << >>, << >>, {"alice"}),
                        Cmd(<<"w">>, "cmd_w", "", << >>, <<"#Ops">>, {}) >>,
            std |-> << <<"i">> >>,
            dynamic |-> [exists |-> TRUE,
                         json |-> << [key |-> "one", name |-> << <<"g">> >>,
                                      call_level |-> ""] >>]]
      [] ident = "bad" ->
           [has |-> TRUE, name |-> <<"z">>,
            acmds |-> << ACmd(<<"m">>, "acmd_m", TRUE, "admin", TRUE) >>,
            cmds |-> << >>,
            std |-> << <<"q">> >>, dynamic |-> NoClass.dynamic]
      [] OTHER -> NoClass

(***************************************************************************)
(* Module.__init__                                                         *)
(***************************************************************************)
\* call_level = info.get('call_level', USER_LEVEL_NOPRIVS), replaced by
\* user_levels[call_level] if call_level in user_levels: the number the token
\* names; a token user_levels does not know is kept as it is (LevelToken) and
\* names no number
LevelNumber(token) ==
    IF token \in DOMAIN user_levels THEN user_levels[token] ELSE USER_LEVEL_NOPRIVS

\* the string left in call_level when user_levels does not know the token;
\* "" when call_level is a number
LevelToken(token) ==
    IF token = "" \/ token \in DOMAIN user_levels THEN "" ELSE token

\* the command objects return_command_dict builds for one cmd_* member
CommandObject(ident, c) ==
    [call |-> H(ident, c.fn), call_level |-> LevelNumber(c.call_level),
     call_level_token |-> LevelToken(c.call_level),
     channel_mode_restriction |-> c.channel_mode_restriction,
     channel_whitelist |-> c.channel_whitelist,
     user_whitelist |-> c.user_whitelist]

AdminCommandObject(ident, a, module_name) ==
    [call |-> H(ident, a.fn), call_level |-> LevelNumber(a.call_level),
     call_level_token |-> LevelToken(a.call_level), bound |-> a.bound,
     module_name |-> module_name]

RECURSIVE InitAdminCommands(_, _, _, _)
\* acmd_* members that are not global: self.admin_commands.update(cmd)
InitAdminCommands(ident, acmds, i, table) ==
    IF i > Len(acmds) THEN table
    ELSE IF acmds[i].global
         THEN InitAdminCommands(ident, acmds, i + 1, table)
         ELSE InitAdminCommands(ident, acmds, i + 1,
                                Put(table, acmds[i].name, AdminCommandObject(ident, acmds[i], << >>)))

RECURSIVE InitGlobalAdminCommands(_, _, _, _, _)
\* acmd_* members marked global: appended to the registry's global table,
\* tagged with the module's name, while the module object is constructed
InitGlobalAdminCommands(ident, name, acmds, i, gac) ==
    IF i > Len(acmds) THEN gac
    ELSE IF acmds[i].global
         THEN LET cmdn == acmds[i].name
                  old == IF cmdn \in DOMAIN gac THEN gac[cmdn] ELSE << >>
              IN  InitGlobalAdminCommands(ident, name, acmds, i + 1,
                      Put(gac, cmdn, Append(old, AdminCommandObject(ident, acmds[i], name))))
         ELSE InitGlobalAdminCommands(ident, name, acmds, i + 1, gac)

RECURSIVE InitCommands(_, _, _, _)
\* cmd_* members: self.static_commands.update(cmd)
InitCommands(ident, cmds, i, table) ==
    IF i > Len(cmds) THEN table
    ELSE InitCommands(ident, cmds, i + 1, Put(table, cmds[i].name, CommandObject(ident, cmds[i])))

RECURSIVE InitEvents(_, _, _, _)
\* *_listener members: self.events[direction][event_type].append(listn)
InitEvents(ident, listens, i, events) ==
    IF i > Len(listens) THEN events
    ELSE LET l == listens[i]
             e1 == IF l.direction \in DOMAIN events THEN events
                   ELSE Put(events, l.direction, EmptyMap)
             e2 == IF l.event_type \in DOMAIN e1[l.direction] THEN e1
                   ELSE Put(e1, l.direction, Put(e1[l.direction], l.event_type, << >>))
             listn == [priority |-> l.priority, handler |-> H(ident, l.fn), inline |-> l.inline]
             e3 == Put(e2, l.direction,
                       Put(e2[l.direction], l.event_type, Append(e2[l.direction][l.event_type], listn)))
         IN  InitEvents(ident, listens, i + 1, e3)

\* the Module object built by item[1](self.bot)
ModuleInit(ident) ==
    LET c == ClassDef(ident)
    IN  [name |-> c.name, ident |-> ident,
         admin_commands |-> InitAdminCommands(ident, c.acmds, 1, EmptyMap),
         \* self.commands.update(self.static_commands)
         commands |-> InitCommands(ident, c.cmds, 1, EmptyMap),
         static_commands |-> InitCommands(ident, c.cmds, 1, EmptyMap),
         json_handlers |-> 0,
         events |-> InitEvents(ident, MemberListens(ListenerMembers(ident), 1), 1, EmptyMap),
         standard_admin_commands |-> c.std]

(***************************************************************************)
(* The registry: whole_modules, modules, global_admin_commands, listeners. *)
(***************************************************************************)
VARIABLES whole_modules, modules, global_admin_commands, listeners,
          members, result, hist, trace, dispatch, threads, extracted

reg == <<whole_modules, modules, global_admin_commands, listeners>>

vars == <<whole_modules, modules, global_admin_commands, listeners,
          members, result, hist, trace, dispatch, threads, extracted>>

\* the registry as one value
Registry == [wm |-> whole_modules, mods |-> modules,
             gac |-> global_admin_commands, lst |-> listeners]

GlobalEntries(gac) == SumLens(gac, DOMAIN gac)

(***************************************************************************)
(* Modules.load                                                            *)
(***************************************************************************)
RECURSIVE AddStandard(_, _, _)
\* binds module.standard_admin_commands; ok = FALSE is the raised Exception
AddStandard(names, i, st) ==
    IF i > Len(names) \/ ~st.ok THEN st
    ELSE IF names[i] \notin standard_admin_commands
         THEN [st EXCEPT !.ok = FALSE]
         ELSE AddStandard(names, i + 1,
                  [st EXCEPT !.table = Put(st.table, names[i],
                      [call |-> <<"standard", names[i]>>, call_level |-> USER_LEVEL_ADMIN,
                       call_level_token |-> "",
                       bound |-> FALSE, module_name |-> << >>])])

\* self.listeners[priority][direction][event_name].append((handler, inline))
AddListener(lst, priority, direction, event_name, handler, inline) ==
    LET l1 == IF priority \in DOMAIN lst THEN lst ELSE Put(lst, priority, EmptyMap)
        l2 == IF direction \in DOMAIN l1[priority] THEN l1
              ELSE Put(l1, priority, Put(l1[priority], direction, EmptyMap))
        l3 == IF event_name \in DOMAIN l2[priority][direction] THEN l2
              ELSE Put(l2, priority, Put(l2[priority], direction,
                       Put(l2[priority][direction], event_name, << >>)))
    IN  Put(l3, priority, Put(l3[priority], direction,
            Put(l3[priority][direction], event_name,
                Append(l3[priority][direction][event_name], <<handler, inline>>))))

RECURSIVE AddHandlers(_, _, _, _, _)
AddHandlers(lst, direction, event_name, handlers, i) ==
    IF i > Len(handlers) THEN lst
    ELSE AddHandlers(AddListener(lst, handlers[i].priority, direction, event_name,
                                 handlers[i].handler, handlers[i].inline),
                     direction, event_name, handlers, i + 1)

RECURSIVE AddEventNames(_, _, _, _)
\* for event_name, handlers in module.events.get(direction, {}).items():
\* event names address disjoint branches, so the order of names is immaterial
AddEventNames(lst, direction, table, names) ==
    IF names = {} THEN lst
    ELSE LET n == CHOOSE x \in names : TRUE
         IN  AddEventNames(AddHandlers(lst, direction, n, table[n], 1),
                           direction, table, names \ {n})

RECURSIVE AddDirections(_, _, _, _)
AddDirections(lst, events, dirs, i) ==
    IF i > Len(dirs) THEN lst
    ELSE LET table == Get(events, dirs[i], EmptyMap)
         IN  AddDirections(AddEventNames(lst, dirs[i], table, DOMAIN table), events, dirs, i + 1)

\* the registry after load(name) and what load returned:
\*   "true", "false" or "raised" (the Exception of an unknown standard command)
LoadModule(R, name, c, module) ==
    LET gac1 == InitGlobalAdminCommands(module.ident, c.name, c.acmds, 1, R.gac)
        R1 == [R EXCEPT !.gac = gac1]
    IN  IF ~c.has THEN [R |-> R, ret |-> "false", why |-> "nomodule",
                        hooks |-> << >>, steps |-> <<"load">>]
        ELSE IF module.name \in DOMAIN R1.mods
        THEN [R |-> R1, ret |-> "false", why |-> "dupe", hooks |-> << >>, steps |-> <<"load">>]
        ELSE LET std == AddStandard(module.standard_admin_commands, 1,
                                    [ok |-> TRUE, table |-> module.admin_commands])
                 module2 == [module EXCEPT !.admin_commands = std.table]
                 R2 == [R1 EXCEPT !.wm = Put(R1.wm, name, <<module.name>>),
                                  !.mods = Put(R1.mods, module.name, module2)]
             IN  IF ~std.ok THEN [R |-> R2, ret |-> "raised", why |-> "standard",
                                      hooks |-> << >>, steps |-> <<"load">>]
                 ELSE [R |-> [R2 EXCEPT !.lst = AddDirections(R2.lst, module.events,
                                                              <<"in", "out", "both">>, 1)],
                       ret |-> "true", why |-> "ok", hooks |-> << >>, steps |-> <<"load">>]

\* load(name) of the source file `file`: item[1](self.bot) builds the module
LoadFile(R, name, file) == LoadModule(R, name, ClassDef(file), ModuleInit(file))

\* load(name) when the source file of name holds what the catalog has for name
LoadResult(R, name) == LoadFile(R, name, name)

(***************************************************************************)
(* Modules.unload                                                          *)
(***************************************************************************)
RECURSIVE DropOwned(_, _)
\* the entries of one global list that are not tagged with module_name
DropOwned(entries, module_name) ==
    IF entries = << >> THEN << >>
    ELSE IF Head(entries).module_name = module_name
         THEN DropOwned(Tail(entries), module_name)
         ELSE <<Head(entries)>> \o DropOwned(Tail(entries), module_name)

\* remove global listeners: the keys of the table stay
RemoveGlobals(gac, module_name) ==
    [cmd \in DOMAIN gac |-> DropOwned(gac[cmd], module_name)]

\* a removal that drops the whole list of the key, not the one tuple
RemoveListenerWholeList(st, priority, direction, event_name, handler, inline) ==
    LET lst == st.lst
    IN  IF ~st.ok THEN st
        ELSE IF \/ priority \notin DOMAIN lst
                \/ direction \notin DOMAIN lst[priority]
                \/ event_name \notin DOMAIN lst[priority][direction]
        THEN st
        ELSE LET evs == Del(lst[priority][direction], event_name)
                 ds == IF DOMAIN evs = {} THEN Del(lst[priority], direction)
                       ELSE Put(lst[priority], direction, evs)
                 l2 == IF DOMAIN ds = {} THEN Del(lst, priority)
                       ELSE Put(lst, priority, ds)
             IN  [st EXCEPT !.lst = l2]

\* one .remove((handler, inline)) and the three pruning tests;
\* ok = FALSE is the KeyError / ValueError of a missing branch or tuple
RemoveListener(st, priority, direction, event_name, handler, inline) ==
    LET lst == st.lst
    IN  IF ~st.ok THEN st
        ELSE IF \/ priority \notin DOMAIN lst
                \/ direction \notin DOMAIN lst[priority]
                \/ event_name \notin DOMAIN lst[priority][direction]
                \/ ~InSeq(<<handler, inline>>, lst[priority][direction][event_name])
        THEN [st EXCEPT !.ok = FALSE]
        ELSE LET rest == RemoveFirst(lst[priority][direction][event_name], <<handler, inline>>)
                 evs == IF rest = << >> THEN Del(lst[priority][direction], event_name)
                        ELSE Put(lst[priority][direction], event_name, rest)
                 ds == IF DOMAIN evs = {} THEN Del(lst[priority], direction)
                       ELSE Put(lst[priority], direction, evs)
                 l2 == IF DOMAIN ds = {} THEN Del(lst, priority)
                       ELSE Put(lst, priority, ds)
             IN  [st EXCEPT !.lst = l2]

RECURSIVE RemoveHandlers(_, _, _, _, _)
RemoveHandlers(st, direction, event_name, handlers, i) ==
    IF i > Len(handlers) THEN st
    ELSE RemoveHandlers(RemoveListener(st, handlers[i].priority, direction, event_name,
                                       handlers[i].handler, handlers[i].inline),
                        direction, event_name, handlers, i + 1)

RECURSIVE RemoveEventNames(_, _, _, _)
RemoveEventNames(st, direction, table, names) ==
    IF names = {} THEN st
    ELSE LET n == CHOOSE x \in names : TRUE
         IN  RemoveEventNames(RemoveHandlers(st, direction, n, table[n], 1),
                              direction, table, names \ {n})

RECURSIVE RemoveDirections(_, _, _, _)
RemoveDirections(st, events, dirs, i) ==
    IF i > Len(dirs) THEN st
    ELSE LET table == Get(events, dirs[i], EmptyMap)
         IN  RemoveDirections(RemoveEventNames(st, dirs[i], table, DOMAIN table), events, dirs, i + 1)

\* every (handler, inline) tuple the index holds
IndexTuples(lst) ==
    UNION {UNION {UNION {{lst[p][d][e][i] : i \in 1..Len(lst[p][d][e])}
                         : e \in DOMAIN lst[p][d]}
                  : d \in DOMAIN lst[p]}
           : p \in DOMAIN lst}

\* self.modules[modname].unload() called with the registry as R: the call,
\* and what of the module the registry still holds at that moment
TeardownHook(R, modname) ==
    [hook |-> "unload", module |-> modname,
     globals_left |-> \E k \in DOMAIN R.gac : \E i \in 1..Len(R.gac[k]) :
                          R.gac[k][i].module_name = R.mods[modname].name,
     listeners_left |-> \E t \in IndexTuples(R.lst) : t[1][1] = R.mods[modname].ident,
     registered |-> modname \in DOMAIN R.mods,
     mapped |-> \E x \in DOMAIN R.wm : InSeq(modname, R.wm[x])]

RECURSIVE UnloadModulesHookFirst(_, _, _)
\* an unload that calls the teardown hook before it removes anything
UnloadModulesHookFirst(st, modnames, i) ==
    IF i > Len(modnames) \/ ~st.ok THEN st
    ELSE LET modname == modnames[i]
             module == st.R.mods[modname]
             gac1 == RemoveGlobals(st.R.gac, module.name)
             rm == RemoveDirections([ok |-> TRUE, lst |-> st.R.lst], module.events,
                                    <<"both", "in", "out">>, 1)
             R1 == [st.R EXCEPT !.gac = gac1, !.lst = rm.lst]
         IN  IF ~rm.ok THEN [st EXCEPT !.ok = FALSE, !.R = R1]
             ELSE UnloadModulesHookFirst(
                      [st EXCEPT !.R = [R1 EXCEPT !.mods = Del(R1.mods, modname)],
                                 !.hooks = Append(st.hooks, TeardownHook(st.R, modname))],
                      modnames, i + 1)

RECURSIVE UnloadModules(_, _, _)
\* for modname in self.whole_modules[name]; hooks lists the calls of
\* self.modules[modname].unload()
UnloadModules(st, modnames, i) ==
    IF i > Len(modnames) \/ ~st.ok THEN st
    ELSE LET modname == modnames[i]
             module == st.R.mods[modname]
             gac1 == RemoveGlobals(st.R.gac, module.name)
             rm == RemoveDirections([ok |-> TRUE, lst |-> st.R.lst], module.events,
                                    <<"both", "in", "out">>, 1)
             R1 == [st.R EXCEPT !.gac = gac1, !.lst = rm.lst]
         IN  IF ~rm.ok THEN [st EXCEPT !.ok = FALSE, !.R = R1]
             ELSE UnloadModules([st EXCEPT !.R = [R1 EXCEPT !.mods = Del(R1.mods, modname)],
                                           !.hooks = Append(st.hooks, TeardownHook(R1, modname))],
                                modnames, i + 1)

\* what unload answers once the loop over the modules ended as st
UnloadEnd(st, name) ==
    IF ~st.ok THEN [R |-> st.R, ret |-> "raised", why |-> "listener",
                    hooks |-> st.hooks, steps |-> <<"unload">>]
    ELSE [R |-> [st.R EXCEPT !.wm = Del(st.R.wm, name)], ret |-> "true", why |-> "ok",
          hooks |-> st.hooks, steps |-> <<"unload">>]

\* an unload that takes an identifier it does not know for unloaded
UnloadResultLenient(R, name) ==
    IF name \notin DOMAIN R.wm
    THEN [R |-> R, ret |-> "true", why |-> "ok", hooks |-> << >>, steps |-> <<"unload">>]
    ELSE UnloadEnd(UnloadModules([ok |-> TRUE, R |-> R, hooks |-> << >>], R.wm[name], 1), name)

UnloadResult(R, name) ==
    IF name \notin DOMAIN R.wm
    THEN [R |-> R, ret |-> "false", why |-> "notloaded", hooks |-> << >>, steps |-> <<"unload">>]
    ELSE UnloadEnd(UnloadModules([ok |-> TRUE, R |-> R, hooks |-> << >>], R.wm[name], 1), name)

(***************************************************************************)
(* reload, as cmd_module does it: unload, and load only if that worked     *)
(***************************************************************************)
\* the outcome of the load that follows an unload, with what both did
AfterUnload(hooks, steps, l) == [l EXCEPT !.hooks = hooks \o l.hooks, !.steps = steps \o l.steps]

\* if self.bot.modules.unload(module): worked = self.bot.modules.load(module)
\* a reload of name after its source file was edited to hold what file holds:
\* imp.reload reads the source again
ReloadFile(R, name, file) ==
    LET u == UnloadResult(R, name)
    IN  IF u.ret = "true" THEN AfterUnload(u.hooks, u.steps, LoadFile(u.R, name, file))
        ELSE [u EXCEPT !.why = "unload"]

ReloadResult(R, name) ==
    LET u == UnloadResult(R, name)
    IN  IF u.ret = "true" THEN AfterUnload(u.hooks, u.steps, LoadResult(u.R, name))
        ELSE [u EXCEPT !.why = "unload"]

(***************************************************************************)
(* Text: str.startswith, str.strip, str.split(' ', n), str.lower, sorted   *)
(***************************************************************************)
StartsWith(s, p) == Len(s) >= Len(p) /\ SubSeq(s, 1, Len(p)) = p

\* the characters str.strip() removes
Whitespace == {" ", "\t"}

RECURSIVE LStrip(_)
LStrip(s) == IF s # << >> /\ Head(s) \in Whitespace THEN LStrip(Tail(s)) ELSE s

RECURSIVE RStrip(_)
RStrip(s) ==
    IF s # << >> /\ s[Len(s)] \in Whitespace THEN RStrip(SubSeq(s, 1, Len(s) - 1)) ELSE s

Strip(s) == RStrip(LStrip(s))

RECURSIVE SplitAtWhitespace(_, _)
\* a split at any whitespace character, as s.split(None, maxsplit) finds them
SplitAtWhitespace(s, maxsplit) ==
    IF maxsplit = 0 \/ \A i \in 1..Len(s) : s[i] \notin Whitespace THEN <<s>>
    ELSE LET i == CHOOSE k \in 1..Len(s) :
                      s[k] \in Whitespace /\ \A j \in 1..(k - 1) : s[j] \notin Whitespace
         IN  <<SubSeq(s, 1, i - 1)>> \o SplitAtWhitespace(SubSeq(s, i + 1, Len(s)), maxsplit - 1)

RECURSIVE Split(_, _)
\* s.split(' ', maxsplit)
Split(s, maxsplit) ==
    IF maxsplit = 0 \/ ~InSeq(" ", s) THEN <<s>>
    ELSE LET i == FirstIndex(s, " ")
         IN  <<SubSeq(s, 1, i - 1)>> \o Split(SubSeq(s, i + 1, Len(s)), maxsplit - 1)

RECURSIVE JoinSpaces(_)
\* ' '.join(parts)
JoinSpaces(parts) ==
    IF parts = << >> THEN << >>
    ELSE IF Len(parts) = 1 THEN parts[1]
    ELSE parts[1] \o <<" ">> \o JoinSpaces(Tail(parts))

LowerChar(c) == CASE c = "C" -> "c" [] c = "M" -> "m" [] c = "G" -> "g" [] OTHER -> c

Lower(s) == [i \in 1..Len(s) |-> LowerChar(s[i])]

(***************************************************************************)
(* Dynamic commands: Module.load and Module._json_command_callback         *)
(***************************************************************************)
\* bot.settings['dynamic_commands_disabled']: the disabled keys of each module
dynamic_commands_disabled == (<<"n">> :> {"off"})

\* commands.update(self.static_commands): the static commands win
UpdateStatic(module) ==
    [module EXCEPT
       !.commands = [k \in DOMAIN module.static_commands \cup DOMAIN @ |->
                        IF k \in DOMAIN module.static_commands
                        THEN module.static_commands[k] ELSE @[k]]]

\* _json_command_callback(new_json): new_json as its items in file order,
\* the items of disabled keys left out
JsonCommandCallback(module, new_json) ==
    LET disabled_commands == Get(dynamic_commands_disabled, Lower(module.name), {})
        used == {i \in 1..Len(new_json) : new_json[i].key \notin disabled_commands}
        names(i) == {new_json[i].name[j] : j \in 1..Len(new_json[i].name)}
        \* new_commands.update(single_command_dict): the last item of a name stays
        last(k) == CHOOSE i \in used : k \in names(i) /\ \A j \in used : k \in names(j) => j <= i
    IN  UpdateStatic([module EXCEPT
                        !.commands =
                            [k \in UNION {names(i) : i \in used} |->
                                CommandObject(module.ident,
                                              Cmd(k, "combined", new_json[last(k)].call_level,
                                                  << >>, << >>, {}))]])

\* reload_json(): every handler of the module reads the files and calls back
ReloadJson(module, new_json) ==
    IF module.json_handlers > 0 THEN JsonCommandCallback(module, new_json) ELSE module

\* Module.load(), the hook that makes the commands live: a handler is
\* registered when the directory of the module exists, reload_json(), then
\* self.commands.update(self.static_commands)
ModuleLoad(module) ==
    UpdateStatic(IF ClassDef(module.ident).dynamic.exists
                 THEN ReloadJson([module EXCEPT !.json_handlers = @ + 1],
                                 ClassDef(module.ident).dynamic.json)
                 ELSE module)

\* the characters of the model in code point order
Alphabet == <<"\t", " ", "!", "*", "@", "C", "G", "M", "c", "g", "i", "k", "l", "m", "n", "s",
              "u", "v", "w", "x", "z">>

CharRank(c) == CHOOSE i \in 1..Len(Alphabet) : Alphabet[i] = c

RECURSIVE StrLess(_, _)
StrLess(a, b) ==
    IF b = << >> THEN FALSE
    ELSE IF a = << >> THEN TRUE
    ELSE IF Head(a) # Head(b) THEN CharRank(Head(a)) < CharRank(Head(b))
    ELSE StrLess(Tail(a), Tail(b))

RECURSIVE SortedStrs(_)
\* sorted(keys) of a set of strings
SortedStrs(S) ==
    IF S = {} THEN << >>
    ELSE LET m == CHOOSE x \in S : \A y \in S \ {x} : StrLess(x, y)
         IN  <<m>> \o SortedStrs(S \ {m})

(***************************************************************************)
(* The collaborators: settings, accounts, the server's channel information *)
(***************************************************************************)
\* escape(self.bot.settings.store['command_prefix']) and the admin one
command_prefix == <<"!">>
admin_command_prefix == <<"@">>

Nicks == {"alice", "bob", "carol"}
Channels == {"#ops", "#pub"}
BotNick == "goshu"

\* self.bot.accounts.account(server, source): "none" is None
Account(nick) ==
    CASE nick = "alice" -> "alice_acct"
      [] nick = "carol" -> "carol_acct"
      [] OTHER -> "none"

\* self.bot.accounts.access_level(account)
AccessLevel(account) ==
    CASE account = "alice_acct" -> USER_LEVEL_ADMIN
      [] account = "carol_acct" -> USER_LEVEL_USER
      [] OTHER -> USER_LEVEL_NOPRIVS

\* the userlevel both routers compute
UserLevel(nick) ==
    IF Account(nick) # "none" THEN AccessLevel(Account(nick)) ELSE USER_LEVEL_NOPRIVS

\* rank of a channel mode letter: voice < halfop < op
ModeRank(mode) ==
    CASE mode = <<"v">> -> 1
      [] mode = <<"h">> -> 2
      [] mode = <<"o">> -> 3
      [] OTHER -> 0

\* the mode a nick holds in a channel while it is a member
ModeOf(chan, nick) ==
    CASE nick = "alice" -> <<"o">>
      [] nick = "bob" /\ chan = "#ops" -> <<"v">>
      [] nick = "carol" /\ chan = "#ops" -> <<"h">>
      [] OTHER -> << >>

\* event['from_to'].has_privs(nick, lowest_mode=mode) of channel chan
HasPrivs(mem, chan, nick, mode) ==
    /\ nick \in mem[chan]
    /\ ModeRank(ModeOf(chan, nick)) >= ModeRank(mode)

\* event['server'].istring(chan): the server's case folding of a name
IString(chan) == CASE chan = "#Ops" -> "#ops" [] chan = "#Pub" -> "#pub" [] OTHER -> chan

IsChannel(target) == target \in Channels

(***************************************************************************)
(* Events                                                                  *)
(***************************************************************************)
Event(verb, direction, source, target, message) ==
    [verb |-> verb, direction |-> direction, source |-> source, target |-> target,
     message |-> message, source_account |-> "unset", source_user_level |-> -1]

Messages ==
    { <<"!", "c">>, <<"!", "C", " ", "x">>, <<"!", "k">>, <<"!", "s">>, <<"!", "u">>,
      <<"!", "w", " ", "x">>, <<"!", " ">>, <<"c">>, <<"!", "c", "\t", "x">>,
      <<"@", "m", " ", "l", " ", "x">>, <<"@", "g", " ", "x", " ", "x">>,
      <<"@", "n", " ", "i">>, <<"@", "M">>, <<"!", "v">> }

Events ==
    {Event("pubmsg", "in", s, t, m) : s \in Nicks, t \in Channels, m \in Messages}
    \cup {Event("privmsg", "in", s, BotNick, m) : s \in Nicks, m \in Messages}
    \cup {Event("privmsg", "out", BotNick, "bob", <<"!", "c">>),
          Event("join", "in", "bob", "#ops", << >>)}

\* what an inline listener may return: None, the event it was given with
\* another message, or an event object of its own making
ReturnKinds == {"none", "rewrite", "fresh"}

InlineReturn(kind, event) ==
    CASE kind = "rewrite" -> << [event EXCEPT !.message = <<"!", "s">>] >>
      [] kind = "fresh" -> << Event("pubmsg", "in", "carol", "#ops", <<"!", "w", " ", "x">>) >>
      [] OTHER -> << >>

(***************************************************************************)
(* Modules.handle: listener dispatch                                       *)
(***************************************************************************)
\* the convenience variables added to an inbound message event
AttachLevel(event) ==
    IF event.verb \in {"privmsg", "pubmsg"} /\ event.direction = "in"
    THEN [event EXCEPT !.source_account = Account(event.source),
                       !.source_user_level = AccessLevel(Account(event.source))]
    ELSE event

\* a bus that calls an inline listener and drops the event it returns
CallListenerKeepsEvent(st, entry, ret, priority, direction, type) ==
    LET handler == entry[1]
        inline == entry[2]
    IN  IF InSeq(handler, st.called) THEN st
        ELSE LET new_event == IF inline THEN InlineReturn(ret[handler], st.event) ELSE << >>
             IN  [event |-> st.event,
                  called |-> Append(st.called, handler),
                  log |-> Append(st.log,
                            [handler |-> handler, inline |-> inline, event |-> st.event,
                             ret |-> new_event, priority |-> priority,
                             direction |-> direction, type |-> type])]

\* a bus that remembers the (handler, inline) tuples it called
CallListenerByTuple(st, entry, ret, priority, direction, type) ==
    LET handler == entry[1]
        inline == entry[2]
    IN  IF InSeq(entry, st.called) THEN st
        ELSE LET new_event == IF inline THEN InlineReturn(ret[handler], st.event) ELSE << >>
             IN  [event |-> IF new_event # << >> THEN new_event[1] ELSE st.event,
                  called |-> Append(st.called, entry),
                  log |-> Append(st.log,
                            [handler |-> handler, inline |-> inline, event |-> st.event,
                             ret |-> new_event, priority |-> priority,
                             direction |-> direction, type |-> type])]

\* one listener: skipped if its handler was called, else called inline or
\* started as a thread with the event of that moment
CallListener(st, entry, ret, priority, direction, type) ==
    LET handler == entry[1]
        inline == entry[2]
    IN  IF InSeq(handler, st.called) THEN st
        ELSE LET new_event == IF inline THEN InlineReturn(ret[handler], st.event) ELSE << >>
             IN  [event |-> IF new_event # << >> THEN new_event[1] ELSE st.event,
                  called |-> Append(st.called, handler),
                  log |-> Append(st.log,
                            [handler |-> handler, inline |-> inline, event |-> st.event,
                             ret |-> new_event, priority |-> priority,
                             direction |-> direction, type |-> type])]

RECURSIVE RunEntries(_, _, _, _, _, _, _)
RunEntries(lst, st, ret, priority, direction, type, i) ==
    LET entries == Get(Get(lst[priority], direction, EmptyMap), type, << >>)
    IN  IF i > Len(entries) THEN st
        ELSE RunEntries(lst, CallListener(st, entries[i], ret, priority, direction, type),
                        ret, priority, direction, type, i + 1)

RECURSIVE RunTypes(_, _, _, _, _, _, _)
RunTypes(lst, st, ret, priority, direction, types, j) ==
    IF j > Len(types) THEN st
    ELSE RunTypes(lst, RunEntries(lst, st, ret, priority, direction, types[j], 1),
                  ret, priority, direction, types, j + 1)

RECURSIVE RunDirections(_, _, _, _, _, _)
\* for search_type in ['all', event['verb']] is evaluated per direction
RunDirections(lst, st, ret, priority, dirs, k) ==
    IF k > Len(dirs) THEN st
    ELSE RunDirections(lst, RunTypes(lst, st, ret, priority, dirs[k],
                                     <<"all", st.event.verb>>, 1),
                       ret, priority, dirs, k + 1)

RECURSIVE RunPriorities(_, _, _, _, _)
\* for search_direction in ['both', event['direction']] is evaluated per priority
RunPriorities(lst, st, ret, priorities, n) ==
    IF n > Len(priorities) THEN st
    ELSE RunPriorities(lst, RunDirections(lst, st, ret, priorities[n],
                                          <<"both", st.event.direction>>, 1),
                       ret, priorities, n + 1)

CallListeners(lst, event, ret) ==
    RunPriorities(lst, [event |-> event, called |-> << >>, log |-> << >>], ret,
                  SortedInts(DOMAIN lst), 1)

(***************************************************************************)
(* Modules.handle_command: the text command router                         *)
(***************************************************************************)
RECURSIVE FoldStrings(_, _)
\* [event['server'].istring(chan) for chan in command_info.channel_whitelist]
FoldStrings(chans, i) ==
    IF i > Len(chans) THEN << >>
    ELSE <<IString(chans[i])>> \o FoldStrings(chans, i + 1)

RECURSIVE ChannelUsers(_, _, _)
\* the users of every whitelisted channel, as get_channel_info(chan)['users'] gives them
ChannelUsers(mem, chans, i) ==
    IF i > Len(chans) THEN {}
    ELSE Get(mem, chans[i], {}) \cup ChannelUsers(mem, chans, i + 1)

\* a privilege test that lets a caller one level short through
HasLevelOffByOne(userlevel, command_info) == userlevel + 1 >= command_info.call_level

\* userlevel >= command_info.call_level can be evaluated: an int and a str
\* are not ordered (TypeError)
ComparableLevel(command_info) == command_info.call_level_token = ""

\* if userlevel >= command_info.call_level
HasLevel(userlevel, command_info) == userlevel >= command_info.call_level

\* a mode test that forgets private messages
ModeRestrictedInChannelsOnly(mem, event, command_info) ==
    /\ command_info.channel_mode_restriction # << >>
    /\ IsChannel(event.target)
    /\ ~HasPrivs(mem, event.target, event.source, command_info.channel_mode_restriction)

\* the test that skips a mode restricted command: it is allowed in channels
\* only, and there only to a caller who holds the mode
ModeRestricted(mem, event, command_info) ==
    /\ command_info.channel_mode_restriction # << >>
    /\ \/ ~IsChannel(event.target)
       \/ /\ IsChannel(event.target)
          /\ ~HasPrivs(mem, event.target, event.source,
                       command_info.channel_mode_restriction)

\* the whitelist test, on the lists as the routing pass built them
Whitelisted(source_chan, source_nick, current_channel_whitelist, current_user_whitelist) ==
    \/ InSeq(source_chan, current_channel_whitelist)
    \/ source_nick \in current_user_whitelist
    \/ current_channel_whitelist = << >>

\* a routing pass that remembers nothing
AlreadyCalledNever(call, called) == FALSE

\* if command_info.call not in called
AlreadyCalled(call, called) == InSeq(call, called)

\* one (module, search_command) step of the routing pass.
\* user_whitelist is kept as the set of the elements of the Python list:
\* the code only tests membership in it.
CommandStep(st, mem, event, module, search_command, command_name, command_args, userlevel) ==
    LET module_commands == st.mods[module].commands
    IN  IF st.raised \/ search_command \notin DOMAIN module_commands THEN st
        ELSE LET command_info == module_commands[search_command]
                 source_chan == event.target
                 source_nick == event.source
             IN  IF ~ComparableLevel(command_info)
                 THEN [st EXCEPT !.raised = TRUE]
                 ELSE IF ~HasLevel(userlevel, command_info)
                 THEN [st EXCEPT !.no_privs = st.no_privs + 1]
                 ELSE IF ModeRestricted(mem, event, command_info)
                 THEN st
                 ELSE LET current_channel_whitelist == FoldStrings(command_info.channel_whitelist, 1)
                          current_user_whitelist ==
                              command_info.user_whitelist
                                  \cup ChannelUsers(mem, current_channel_whitelist, 1)
                          info2 == [command_info EXCEPT !.user_whitelist = current_user_whitelist]
                          \* the descriptor of a static command is one object in both tables
                          st2 == [st EXCEPT
                                    !.mods[module].commands[search_command] = info2,
                                    !.mods[module].static_commands =
                                        IF search_command \in DOMAIN @
                                        THEN [@ EXCEPT ![search_command] = info2] ELSE @]
                      IN  IF Whitelisted(source_chan, source_nick, current_channel_whitelist,
                                         current_user_whitelist)
                          THEN IF ~AlreadyCalled(command_info.call, st2.called)
                               THEN [st2 EXCEPT
                                       !.called = Append(st2.called, command_info.call),
                                       !.calls = Append(st2.calls,
                                           [call |-> command_info.call, module |-> module,
                                            key |-> search_command, info |-> info2,
                                            event |-> event,
                                            usercmd |-> [command |-> command_name,
                                                         arguments |-> command_args]])]
                               ELSE st2
                          ELSE st2

RECURSIVE CommandModulesLiteralFirst(_, _, _, _, _, _, _, _)
\* a routing pass that looks for the named command before the wildcard
CommandModulesLiteralFirst(st, mem, event, names, i, command_name, command_args, userlevel) ==
    IF i > Len(names) THEN st
    ELSE LET s1 == CommandStep(st, mem, event, names[i], command_name,
                               command_name, command_args, userlevel)
             s2 == CommandStep(s1, mem, event, names[i], <<"*">>,
                               command_name, command_args, userlevel)
         IN  CommandModulesLiteralFirst(s2, mem, event, names, i + 1, command_name,
                                        command_args, userlevel)

RECURSIVE CommandModules(_, _, _, _, _, _, _, _)
\* for module in sorted(self.modules): for search_command in ['*', command_name]
CommandModules(st, mem, event, names, i, command_name, command_args, userlevel) ==
    IF i > Len(names) THEN st
    ELSE LET s1 == CommandStep(st, mem, event, names[i], <<"*">>,
                               command_name, command_args, userlevel)
             s2 == CommandStep(s1, mem, event, names[i], command_name,
                               command_name, command_args, userlevel)
         IN  CommandModules(s2, mem, event, names, i + 1, command_name, command_args, userlevel)

handle_command(mods, mem, event) ==
    LET st0 == [mods |-> mods, called |-> << >>, calls |-> << >>, no_privs |-> 0,
                raised |-> FALSE]
        in_string == Strip(SubSeq(event.message, Len(command_prefix) + 1, Len(event.message)))
        command_list == Split(in_string, 1)
        command_name == Lower(command_list[1])
        command_args == IF Len(command_list) > 1 THEN command_list[2] ELSE << >>
    IN  IF ~StartsWith(event.message, command_prefix) THEN st0
        ELSE IF in_string = << >> THEN st0
        ELSE CommandModules(st0, mem, event, SortedStrs(DOMAIN mods), 1,
                            command_name, command_args, UserLevel(event.source))

(***************************************************************************)
(* Modules.handle_admin_command: the admin command router                  *)
(***************************************************************************)
RECURSIVE MarkAll(_, _, _)
MarkAll(entries, is_global, i) ==
    IF i > Len(entries) THEN << >>
    ELSE <<[info |-> entries[i], is_global |-> is_global]>> \o MarkAll(entries, is_global, i + 1)

RECURSIVE AdminHandlers(_, _, _, _, _, _, _, _, _)
\* for command_info, is_global in handler_list; raised is the KeyError of
\* self.modules[module_name] when no module has that name
AdminHandlers(st, mods, event, handler_list, i, module_name, command_name, command_args, original_command_args) ==
    IF i > Len(handler_list) \/ st.raised THEN st
    ELSE LET command_info == handler_list[i].info
             is_global == handler_list[i].is_global
             userlevel == UserLevel(event.source)
             usercmd == IF is_global
                        THEN [command |-> module_name, arguments |-> original_command_args]
                        ELSE [command |-> command_name, arguments |-> command_args]
             next ==
                 IF ~ComparableLevel(command_info)
                 THEN [st EXCEPT !.raised = TRUE]
                 ELSE IF HasLevel(userlevel, command_info)
                 THEN IF ~command_info.bound /\ module_name \notin DOMAIN mods
                      THEN [st EXCEPT !.raised = TRUE]
                      ELSE [st EXCEPT !.calls = Append(st.calls,
                               [call |-> command_info.call, info |-> command_info,
                                is_global |-> is_global,
                                module_arg |-> IF command_info.bound THEN << >>
                                               ELSE <<module_name>>,
                                event |-> event, usercmd |-> usercmd])]
                 ELSE [st EXCEPT !.no_privs = st.no_privs + 1]
         IN  AdminHandlers(next, mods, event, handler_list, i + 1, module_name, command_name,
                           command_args, original_command_args)

handle_admin_command(mods, gac, event) ==
    LET st0 == [calls |-> << >>, no_privs |-> 0, raised |-> FALSE]
        in_string == Strip(SubSeq(event.message, Len(admin_command_prefix) + 1,
                                  Len(event.message)))
        command_list == Split(in_string, 2)
        module_name == Lower(command_list[1])
        original_command_args == JoinSpaces(Tail(command_list))
        command_name == IF Len(command_list) > 1 THEN Lower(command_list[2]) ELSE << >>
        command_args == IF Len(command_list) < 3 THEN << >> ELSE command_list[3]
        globals == IF module_name \in DOMAIN gac THEN MarkAll(gac[module_name], TRUE, 1)
                   ELSE << >>
        own == IF module_name \in DOMAIN mods
               THEN IF command_name \in DOMAIN mods[module_name].admin_commands
                    THEN <<[info |-> mods[module_name].admin_commands[command_name],
                            is_global |-> FALSE]>>
                    ELSE << >>
               ELSE << >>
    IN  IF ~StartsWith(event.message, admin_command_prefix) THEN st0
        ELSE IF in_string = << >> THEN st0
        ELSE AdminHandlers(st0, mods, event, globals \o own, 1, module_name, command_name,
                           command_args, original_command_args)

(***************************************************************************)
(* Modules.handle                                                          *)
(***************************************************************************)
\* if event['verb'] in ('privmsg', 'pubmsg') and event['direction'] == 'in'
IsInboundMessage(event) == event.verb \in {"privmsg", "pubmsg"} /\ event.direction = "in"

\* an admin router that is also started for public messages
IsInboundPrivateOrPublic(event) == event.verb \in {"privmsg", "pubmsg"} /\ event.direction = "in"

\* if event['verb'] == 'privmsg' and event['direction'] == 'in'
IsInboundPrivate(event) == event.verb = "privmsg" /\ event.direction = "in"

\* the routers after the listener loop ended as ls, and everything the
\* handle(event) did, as the caller of the bus can observe it
RouteResult(R, mem, event, ls) ==
    LET final == ls.event
        is_message == IsInboundMessage(final)
        is_private == IsInboundPrivate(final)
        cmd == IF is_message THEN handle_command(R.mods, mem, final)
               ELSE [mods |-> R.mods, called |-> << >>, calls |-> << >>, no_privs |-> 0,
                     raised |-> FALSE]
        adm == IF is_private /\ ~cmd.raised THEN handle_admin_command(cmd.mods, R.gac, final)
               ELSE [calls |-> << >>, no_privs |-> 0, raised |-> FALSE]
    IN  [mods |-> cmd.mods,
         trace |-> [event |-> event, listener_calls |-> ls.log, final_event |-> <<final>>,
                    command_routed |-> is_message,
                    admin_routed |-> is_private /\ ~cmd.raised,
                    command_calls |-> cmd.calls, admin_calls |-> adm.calls,
                    no_privs |-> cmd.no_privs + adm.no_privs, raised |-> adm.raised,
                    type_error |-> cmd.raised,
                    members |-> mem]]

\* one handle(event) run from its first line to its last
HandleResult(R, mem, event, ret) ==
    RouteResult(R, mem, event, CallListeners(R.lst, AttachLevel(event), ret))

\* the handlers of the inline listeners in the index
InlineHandlers(lst) ==
    {t[1] : t \in {x \in UNION {UNION {UNION {{lst[p][d][e][i] : i \in 1..Len(lst[p][d][e])}
                                              : e \in DOMAIN lst[p][d]}
                                       : d \in DOMAIN lst[p]}
                                : p \in DOMAIN lst} : x[2]}}

(***************************************************************************)
(* Actions                                                                 *)
(***************************************************************************)
NoHist == [tag |-> "none", ident |-> "", lst |-> EmptyMap, gac |-> EmptyMap]

Idle == [op |-> "idle", name |-> "", ret |-> "", why |-> "", hooks |-> << >>, steps |-> << >>]

NoTrace == [event |-> Event("", "", "", "", << >>), listener_calls |-> << >>,
            final_event |-> << >>, command_routed |-> FALSE, admin_routed |-> FALSE,
            command_calls |-> << >>, admin_calls |-> << >>, no_privs |-> 0,
            raised |-> FALSE, type_error |-> FALSE, members |-> EmptyMap]

InitialMembers == [c \in Channels |-> IF c = "#ops" THEN {"alice", "bob"} ELSE Nicks]

Init ==
    /\ whole_modules = EmptyMap
    /\ modules = EmptyMap
    /\ global_admin_commands = EmptyMap
    /\ listeners = EmptyMap
    /\ members = InitialMembers
    /\ result = Idle
    /\ hist = NoHist
    /\ trace = NoTrace
    /\ dispatch = << >>
    /\ extracted = NoExtract
    /\ threads = {}

SetRegistry(R) ==
    /\ whole_modules' = R.wm
    /\ modules' = R.mods
    /\ global_admin_commands' = R.gac
    /\ listeners' = R.lst

\* what the caller of an operation on the registry observes of it
Outcome(op, name, r) ==
    [op |-> op, name |-> name, ret |-> r.ret, why |-> r.why, hooks |-> r.hooks, steps |-> r.steps]

\* the registry and the observation after load(name) ended as r
Loaded(name, r) ==
    /\ GlobalEntries(r.R.gac) <= MaxGlobalEntries
    /\ SetRegistry(r.R)
    /\ result' = Outcome("load", name, r)
    /\ hist' = IF r.ret = "true"
               THEN [tag |-> "loaded", ident |-> name,
                     lst |-> listeners, gac |-> global_admin_commands]
               ELSE NoHist

Load(name) ==
    /\ result.op = "idle"
    /\ Loaded(name, LoadResult(Registry, name))
    /\ UNCHANGED <<members, trace, dispatch, threads, extracted>>

\* the registry and the observation after unload(name) ended as r
Unloaded(name, r) ==
    /\ SetRegistry(r.R)
    /\ result' = Outcome("unload", name, r)
    /\ hist' = IF r.ret = "true" /\ hist.tag = "loaded" /\ hist.ident = name
               THEN [hist EXCEPT !.tag = "roundtrip"]
               ELSE NoHist

Unload(name) ==
    /\ result.op = "idle"
    /\ Unloaded(name, UnloadResult(Registry, name))
    /\ UNCHANGED <<members, trace, dispatch, threads, extracted>>

\* the registry and the observation after the reload of name ended as r
Reloaded(name, r) ==
    /\ GlobalEntries(r.R.gac) <= MaxGlobalEntries
    /\ SetRegistry(r.R)
    /\ result' = Outcome("reload", name, r)
    /\ hist' = NoHist

Reload(name) ==
    /\ result.op = "idle"
    /\ Reloaded(name, ReloadResult(Registry, name))
    /\ UNCHANGED <<members, trace, dispatch, threads, extracted>>

\* the source files that are edited while the bot runs, and what they hold then
EditedFiles == {<<"beta", "alpha2">>, <<"beta", "empty">>}

\* reload of an identifier whose source file was edited
ReloadEdited(name, file) ==
    /\ result.op = "idle"
    /\ Reloaded(name, ReloadFile(Registry, name, file))
    /\ UNCHANGED <<members, trace, dispatch, threads, extracted>>

Handle(event) ==
    /\ result.op = "idle"
    /\ \E ret \in [InlineHandlers(listeners) -> ReturnKinds] :
         LET r == HandleResult(Registry, members, event, ret)
         IN  /\ modules' = r.mods
             /\ trace' = r.trace
    /\ result' = [op |-> "handle", name |-> "", ret |-> "", why |-> "",
                  hooks |-> << >>, steps |-> <<"handle">>]
    /\ hist' = NoHist
    /\ UNCHANGED <<whole_modules, global_admin_commands, listeners, members, dispatch, threads, extracted>>

\* a user joins or leaves a channel (the server's channel information)
JoinChannel(chan, nick) ==
    /\ result.op = "idle"
    /\ nick \notin members[chan]
    /\ members' = [members EXCEPT ![chan] = @ \cup {nick}]
    /\ UNCHANGED <<reg, result, hist, trace, dispatch, threads, extracted>>

PartChannel(chan, nick) ==
    /\ result.op = "idle"
    /\ nick \in members[chan]
    /\ members' = [members EXCEPT ![chan] = @ \ {nick}]
    /\ UNCHANGED <<reg, result, hist, trace, dispatch, threads, extracted>>

\* the operation returns to its caller
Return ==
    /\ result.op # "idle"
    /\ result' = Idle
    /\ trace' = NoTrace
    /\ UNCHANGED <<reg, members, hist, dispatch, threads, extracted>>

(***************************************************************************)
(* The registry's life cycle: load, unload and reload of every identifier, *)
(* and the events handled in between                                       *)
(***************************************************************************)
\* the events that arrive while modules are loaded and unloaded
RaceEvents ==
    {Event("pubmsg", "in", "alice", "#pub", <<"!", "c">>)}

Next ==
    \/ \E name \in Idents : Load(name)
    \/ \E name \in Idents : Unload(name)
    \/ \E name \in Idents : Reload(name)
    \/ \E e \in EditedFiles : ReloadEdited(e[1], e[2])
    \/ \E event \in RaceEvents : Handle(event)
    \/ Return

Spec == Init /\ [][Next]_vars

(***************************************************************************)
(* The bus at work: the registry is what some load requests left, events   *)
(* arrive and users join and leave channels                                *)
(***************************************************************************)
EmptyRegistry == [wm |-> EmptyMap, mods |-> EmptyMap, gac |-> EmptyMap, lst |-> EmptyMap]

RECURSIVE LoadAll(_, _, _)
\* load_init: each file is loaded, then the load() hook of its module is called
LoadAll(R, names, i) ==
    IF i > Len(names) THEN R
    ELSE LoadAll([LoadResult(R, names[i]).R EXCEPT
                    !.mods = IF ClassDef(names[i]).name \in DOMAIN @
                             THEN [@ EXCEPT ![ClassDef(names[i]).name] = ModuleLoad(@)]
                             ELSE @],
                 names, i + 1)

StartupRegistries ==
    {LoadAll(EmptyRegistry, names, 1) :
        names \in UNION {[1..n -> Idents \ {"empty"}] : n \in 0..MaxStartupLoads}}

InitDispatch ==
    /\ \E R \in StartupRegistries :
          /\ GlobalEntries(R.gac) <= MaxGlobalEntries
          /\ whole_modules = R.wm
          /\ modules = R.mods
          /\ global_admin_commands = R.gac
          /\ listeners = R.lst
    /\ members = InitialMembers
    /\ result = Idle
    /\ hist = NoHist
    /\ trace = NoTrace
    /\ dispatch = << >>
    /\ extracted = NoExtract
    /\ threads = {}

NextDispatch ==
    \/ \E event \in Events : Handle(event)
    \* the users whose membership changes: bob and carol
    \/ \E nick \in {"bob", "carol"} : JoinChannel("#ops", nick)
    \/ \E nick \in {"bob", "carol"} : PartChannel("#ops", nick)
    \/ Return

SpecDispatch == InitDispatch /\ [][NextDispatch]_vars

(***************************************************************************)
(* Threads: handle starts its background listeners and command handlers    *)
(* with threading.Thread(...).start() and goes on; here one handle is a    *)
(* run of steps, one per priority of the index and one for the routers,    *)
(* and the started tasks end or fail in between.                           *)
(***************************************************************************)
MaxModuleArgs == 1
\* the threads the model lets live at one time
MaxThreads == 3

\* a task that is waited for: it has ended when the caller goes on
StartThreadAndJoin(ths, call) == ths \cup {[call |-> call, status |-> "ended", todo |-> << >>]}

\* threading.Thread(target=call, args=...).start()
StartThread(ths, call) == ths \cup {[call |-> call, status |-> "running", todo |-> << >>]}

RECURSIVE StartListeners(_, _, _)
\* the threads of the listeners that the entries i.. of the log called not inline
StartListeners(ths, log, i) ==
    IF i > Len(log) THEN ths
    ELSE StartListeners(IF log[i].inline THEN ths ELSE StartThread(ths, log[i].handler),
                        log, i + 1)

RECURSIVE StartHandlers(_, _, _)
\* the threads of the command handlers the routers called
StartHandlers(ths, calls, i) ==
    IF i > Len(calls) THEN ths
    ELSE StartHandlers(StartThread(ths, calls[i].call), calls, i + 1)

\* the events of the model with threads
ThreadEvents ==
    {Event("pubmsg", "in", "alice", "#pub", <<"!", "c">>),
     Event("privmsg", "in", "carol", BotNick, <<"@", "g", " ", "x", " ", "x">>),
     Event("join", "in", "bob", "#ops", << >>)}

\* handle(event) up to `for priority in sorted(self.listeners.keys())`
BeginHandle(event) ==
    /\ result.op = "idle"
    /\ dispatch = << >>
    /\ dispatch' = <<[event |-> event,
                      priorities |-> SortedInts(DOMAIN listeners),
                      st |-> [event |-> AttachLevel(event), called |-> << >>, log |-> << >>]]>>
    /\ UNCHANGED <<reg, members, result, hist, trace, threads, extracted>>

\* the handle ended by the KeyError of self.listeners[priority]
KeyErrorInHandle(d) ==
    /\ dispatch' = << >>
    /\ result' = [op |-> "handle", name |-> "", ret |-> "raised", why |-> "KeyError",
                  hooks |-> << >>, steps |-> <<"handle">>]
    /\ trace' = [NoTrace EXCEPT !.event = d.event, !.listener_calls = d.st.log,
                                !.members = members]
    /\ UNCHANGED <<reg, members, hist, threads, extracted>>

\* the listeners of one priority called, the loop went on as st
PriorityDone(d, st) ==
    /\ dispatch' = <<[d EXCEPT !.priorities = Tail(@), !.st = st]>>
    /\ threads' = StartListeners(threads, st.log, Len(d.st.log) + 1)
    /\ Cardinality(threads') <= MaxThreads
    /\ UNCHANGED <<reg, members, result, hist, trace, extracted>>

\* one turn of `for priority in ...`: the body reads self.listeners[priority]
\* of the index as it is now
StepPriority ==
    /\ dispatch # << >>
    /\ dispatch[1].priorities # << >>
    /\ IF Head(dispatch[1].priorities) \notin DOMAIN listeners
       THEN KeyErrorInHandle(dispatch[1])
       ELSE \E ret \in [InlineHandlers(listeners) -> ReturnKinds] :
                PriorityDone(dispatch[1],
                             RunDirections(listeners, dispatch[1].st, ret,
                                           Head(dispatch[1].priorities),
                                           <<"both", dispatch[1].st.event.direction>>, 1))

\* the routers ran and ended as r: handle returns
Routed(r) ==
    /\ modules' = r.mods
    /\ trace' = r.trace
    /\ threads' = StartHandlers(StartHandlers(threads, r.trace.command_calls, 1),
                                r.trace.admin_calls, 1)
    /\ Cardinality(threads') <= MaxThreads
    /\ result' = [op |-> "handle", name |-> "", ret |-> "", why |-> "",
                  hooks |-> << >>, steps |-> <<"handle">>]
    /\ dispatch' = << >>
    /\ hist' = NoHist
    /\ UNCHANGED <<whole_modules, global_admin_commands, listeners, members, extracted>>

\* the listener loop is over: handle_command and handle_admin_command
FinishHandle ==
    /\ dispatch # << >>
    /\ dispatch[1].priorities = << >>
    /\ Routed(RouteResult(Registry, members, dispatch[1].event, dispatch[1].st))

\* a task returns: its thread is gone
TaskEnds(t) ==
    /\ t \in threads
    /\ t.status = "running"
    /\ t.todo = << >>
    /\ threads' = threads \ {t}
    /\ UNCHANGED <<reg, members, result, hist, trace, dispatch, extracted>>

\* a task raises: the exception ends its thread and nothing else
TaskFails(t) ==
    /\ t \in threads
    /\ t.status = "running"
    /\ threads' = (threads \ {t}) \cup {[t EXCEPT !.status = "failed"]}
    /\ UNCHANGED <<reg, members, result, hist, trace, dispatch, extracted>>

\* the modules the bus was started with
ThreadStartups == {<<"alpha">>, <<"beta">>, <<"alpha", "beta">>, <<"beta", "bad">>}

InitThreads ==
    /\ \E names \in ThreadStartups :
          /\ whole_modules = LoadAll(EmptyRegistry, names, 1).wm
          /\ modules = LoadAll(EmptyRegistry, names, 1).mods
          /\ global_admin_commands = LoadAll(EmptyRegistry, names, 1).gac
          /\ listeners = LoadAll(EmptyRegistry, names, 1).lst
    /\ members = InitialMembers
    /\ result = Idle
    /\ hist = NoHist
    /\ trace = NoTrace
    /\ dispatch = << >>
    /\ extracted = NoExtract
    /\ threads = {}

NextThreads ==
    \/ \E event \in ThreadEvents : BeginHandle(event)
    \/ StepPriority
    \/ FinishHandle
    \/ \E t \in threads : TaskEnds(t)
    \/ \E t \in threads : TaskFails(t)
    \/ Return

SpecThreads == InitThreads /\ [][NextThreads]_vars

(***************************************************************************)
(* The module command at work: cmd_module runs in the thread the text      *)
(* router started for it and calls load, unload or unload-then-load while  *)
(* the bus handles the next events.                                        *)
(***************************************************************************)
\* what cmd_module has left to do: one request per named identifier
ModuleRequests ==
    {[i \in 1..Len(names) |-> [do |-> do, module |-> names[i]]] :
         do \in {"load", "unload", "reload"},
         names \in UNION {[1..k -> {"alpha", "beta"}] : k \in 1..MaxModuleArgs}}

\* worked = load(module) / unload(module) / (load(module) if unload(module))
RequestResult(R, do, module) ==
    IF do = "load" THEN LoadResult(R, module)
    ELSE IF do = "unload" THEN UnloadResult(R, module)
    ELSE ReloadResult(R, module)

\* one request of the command ended as r; an exception of load or unload
\* ends the thread
RequestDone(t, r) ==
    /\ GlobalEntries(r.R.gac) <= MaxGlobalEntries
    /\ SetRegistry(r.R)
    /\ threads' = (threads \ {t})
                    \cup {IF r.ret = "raised" THEN [t EXCEPT !.status = "failed"]
                          ELSE [t EXCEPT !.todo = Tail(@)]}
    /\ UNCHANGED <<members, result, hist, trace, dispatch, extracted>>

\* one turn of `for module in modules` of cmd_module
ModuleTask(t) ==
    /\ t \in threads
    /\ t.status = "running"
    /\ t.todo # << >>
    /\ RequestDone(t, RequestResult(Registry, Head(t.todo).do, Head(t.todo).module))

\* the bus when the text router has just started the module command
InitRace ==
    /\ \E R \in StartupRegistries :
          /\ GlobalEntries(R.gac) <= MaxGlobalEntries
          /\ whole_modules = R.wm
          /\ modules = R.mods
          /\ global_admin_commands = R.gac
          /\ listeners = R.lst
    /\ members = InitialMembers
    /\ result = Idle
    /\ hist = NoHist
    /\ trace = NoTrace
    /\ dispatch = << >>
    /\ extracted = NoExtract
    /\ \E todo \in ModuleRequests :
          threads = {[call |-> <<"modules", "cmd_module">>, status |-> "running",
                      todo |-> todo]}

NextRace ==
    \/ \E event \in RaceEvents : BeginHandle(event)
    \/ StepPriority
    \/ FinishHandle
    \/ \E t \in threads : ModuleTask(t)
    \/ \E t \in threads : TaskEnds(t)
    \/ \E t \in threads : TaskFails(t)
    \/ Return

SpecRace == InitRace /\ [][NextRace]_vars

(***************************************************************************)
(* Dynamic commands: the module command `json reload` while the bot runs   *)
(***************************************************************************)
\* most items of the command files of one module
MaxJsonItems == 2

\* what the command files of a module may hold when they are read again
DynamicData ==
    LET items == {[key |-> "one", name |-> << <<"g">> >>, call_level |-> ""],
                  [key |-> "two", name |-> << <<"c">>, <<"l">> >>, call_level |-> "user"],
                  [key |-> "off", name |-> << <<"s">> >>, call_level |-> ""],
                  [key |-> "dup", name |-> << <<"g">> >>, call_level |-> "admin"]}
    IN  {data \in UNION {[1..n -> items] : n \in 0..MaxJsonItems} :
            \A i, j \in 1..Len(data) : i # j => data[i].key # data[j].key}

\* cmd_json: `json reload <module>` calls reload_json() of the module
JsonReload(module_name, new_json) ==
    /\ result.op = "idle"
    /\ module_name \in DOMAIN modules
    /\ ClassDef(modules[module_name].ident).dynamic.exists \/ new_json = << >>
    /\ modules' = [modules EXCEPT ![module_name] = ReloadJson(@, new_json)]
    /\ result' = [op |-> "json", name |-> modules[module_name].ident, ret |-> "",
                  why |-> "", hooks |-> << >>, steps |-> <<"json">>]
    /\ UNCHANGED <<whole_modules, global_admin_commands, listeners, members, hist, trace,
                   dispatch, threads, extracted>>

NextDynamic ==
    \/ \E module_name \in {<<"m">>, <<"n">>, <<"z">>}, new_json \in DynamicData :
           JsonReload(module_name, new_json)
    \/ \E name \in Idents : Reload(name)
    \/ Return

SpecDynamic == InitThreads /\ [][NextDynamic]_vars

(***************************************************************************)
(* Reading one docstring: the members' docstrings a module file may hold.  *)
(***************************************************************************)
\* most directives of one docstring
MaxDirectives == 2

\* the docstrings of a listener
ListenerDocstrings ==
    LET vals ==
           {<<"privmsg">>, <<"inline", " ", "privmsg">>, <<"in", " ", "privmsg">>,
            <<"out", "  ", "all">>, <<"in", " ", "inline", " ", "privmsg">>,
            <<"inline", "\t", "both", " ", "all", " ", "lowest">>,
            <<"out", " ", "pubmsg", " ", "inline", " ", "higher">>,
            <<"in", " ", "privmsg", " ", "5">>, <<"in", " ", "privmsg", " ", "urgent">>,
            <<"in", " ", "privmsg", " ", "low", " ", "x">>, <<"inline">>}
               \cup {<<"in", " ", "pubmsg", " ", level>> : level \in DOMAIN listener_priorities}
        lines == {[name |-> "listen", val |-> v] : v \in vals}
                     \cup {[name |-> "note", val |-> <<"x">>]}
    IN  UNION {[1..n -> lines] : n \in 1..MaxDirectives}

\* the docstrings of a command: a first line, then directives
CommandDocstrings ==
    LET lines ==
            {[name |-> "alias", val |-> v] :
                v \in {<<"hi">>, <<" ", "Hi", " ">>,
                       <<"yo", " ", "---", " ", "Short", " ", "hello">>,
                       <<"hi", "---", "Waves">>, <<"a", "---", "b", "---", "c">>}}
                \cup {[name |-> "description", val |-> <<"More">>],
                      [name |-> "usage", val |-> <<"[name]">>],
                      [name |-> "chanrestrict", val |-> <<"o">>]}
    IN  {<<[name |-> "", val |-> <<"Says", " ", "hello", " ">>]>> \o directives :
            directives \in UNION {[1..n -> lines] : n \in 0..MaxDirectives}}

InitParse ==
    /\ whole_modules = EmptyMap
    /\ modules = EmptyMap
    /\ global_admin_commands = EmptyMap
    /\ listeners = EmptyMap
    /\ members = InitialMembers
    /\ result = Idle
    /\ hist = NoHist
    /\ trace = NoTrace
    /\ dispatch = << >>
    /\ threads = {}
    /\ \/ \E doc \in ListenerDocstrings :
             extracted = [name |-> << >>, handler |-> "x_listener", doc |-> doc,
                          done |-> FALSE, out |-> << >>, commands |-> << >>]
       \/ \E doc \in CommandDocstrings :
             extracted = [name |-> <<"greet">>, handler |-> "cmd_greet", doc |-> doc,
                          done |-> FALSE, out |-> << >>, commands |-> << >>]

\* the docstring is read
Extract ==
    /\ extracted.doc # << >>
    /\ ~extracted.done
    /\ extracted' = [extracted EXCEPT
                        !.done = TRUE,
                        !.out = extract_mod_info_from_docstring(extracted.doc, extracted.name,
                                                                extracted.handler),
                        !.commands =
                            IF extracted.name = << >> THEN EmptyMap
                            ELSE LET info == extract_mod_info_from_docstring(
                                                 extracted.doc, extracted.name, extracted.handler)
                                 IN  IF info.ok THEN StaticCommands(info.module_dict, 1, EmptyMap)
                                     ELSE EmptyMap]
    /\ UNCHANGED <<reg, members, result, hist, trace, dispatch, threads>>

NextParse == Extract

SpecParse == InitParse /\ [][NextParse]_vars

(***************************************************************************)
(* Properties of the registry                                              *)
(***************************************************************************)
Count(seq, x) == Cardinality({i \in 1..Len(seq) : seq[i] = x})

\* the list of the index under one key, empty when the branch is absent
IndexList(p, d, e) == Get(Get(Get(listeners, p, EmptyMap), d, EmptyMap), e, << >>)

\* how many listeners with priority p and tuple t a module declares for (d, e)
DeclaredIn(module, p, d, e, t) ==
    LET evs == Get(Get(module.events, d, EmptyMap), e, << >>)
    IN  Cardinality({i \in 1..Len(evs) :
            evs[i].priority = p /\ <<evs[i].handler, evs[i].inline>> = t})

RECURSIVE DeclaredCount(_, _, _, _, _)
DeclaredCount(names, p, d, e, t) ==
    IF names = {} THEN 0
    ELSE LET n == CHOOSE x \in names : TRUE
         IN  DeclaredIn(modules[n], p, d, e, t) + DeclaredCount(names \ {n}, p, d, e, t)

KnownListens == UNION {{MemberListens(ListenerMembers(id), 1)[i] : i \in 1..Len(MemberListens(ListenerMembers(id), 1))} : id \in Idents}
KnownPriorities == {l.priority : l \in KnownListens} \cup DOMAIN listeners
KnownDirections == {"in", "out", "both"}
KnownTypes == {l.event_type : l \in KnownListens}
KnownTuples == {<<H(id, l.fn), b>> : id \in Idents, l \in KnownListens, b \in BOOLEAN}

NoEmptyBranch ==
    \A p \in DOMAIN listeners :
        /\ DOMAIN listeners[p] # {}
        /\ \A d \in DOMAIN listeners[p] :
              /\ DOMAIN listeners[p][d] # {}
              /\ \A e \in DOMAIN listeners[p][d] : listeners[p][d][e] # << >>

\* C1: a successful load(X) directly followed by unload(X) leaves the listener
\* index and the global admin command table exactly as they were before the
\* load, with no empty residual list or map and no leaked entry.
C1_LoadUnloadRestores ==
    hist.tag = "roundtrip" =>
        /\ listeners = hist.lst
        /\ global_admin_commands = hist.gac

\* C2: a load that fails because the discovered module's name is already
\* loaded changes none of the live module table, the identifier map, the
\* listener index and the global admin command table.
C2_FailedLoadCommitsNothing ==
    [][(result'.op = "load" /\ result'.why = "dupe") => UNCHANGED reg]_vars

\* C3: in every state, the entries of the listener index are, key by key and
\* one for one, the listeners declared by the currently loaded modules, and
\* no priority, direction or event type branch of the index is empty.
C3_IndexMatchesLoadedModules ==
    /\ NoEmptyBranch
    /\ \A p \in KnownPriorities, d \in KnownDirections \cup UNION {DOMAIN listeners[q] : q \in DOMAIN listeners},
          e \in KnownTypes, t \in KnownTuples :
            Count(IndexList(p, d, e), t) = DeclaredCount(DOMAIN modules, p, d, e, t)

\* C3 outside the states a load that raised leaves behind
IndexMatchesUnlessRaised ==
    (\A n \in DOMAIN modules : modules[n].ident # "bad") => C3_IndexMatchesLoadedModules

(***************************************************************************)
(* Properties of one handle(event), read from its trace                    *)
(***************************************************************************)
Handled == result.op = "handle"

Calls == trace.listener_calls

DirectionRank(key) == IF key = "both" THEN 0 ELSE 1

TypeRank(key) == IF key = "all" THEN 0 ELSE 1

\* C4: listeners are invoked or submitted in ascending priority; within one
\* priority under "both" before the event's own direction, and for each
\* direction under "all" before the event's own verb.
C4_DispatchOrder ==
    Handled =>
        /\ \A i \in 1..Len(Calls) :
              InSeq(<<Calls[i].handler, Calls[i].inline>>,
                    IndexList(Calls[i].priority, Calls[i].direction, Calls[i].type))
        /\ \A i, j \in 1..Len(Calls) : i < j =>
              \/ Calls[i].priority < Calls[j].priority
              \/ /\ Calls[i].priority = Calls[j].priority
                 /\ \/ DirectionRank(Calls[i].direction) < DirectionRank(Calls[j].direction)
                    \/ /\ Calls[i].direction = Calls[j].direction
                       /\ TypeRank(Calls[i].type) <= TypeRank(Calls[j].type)

\* listeners at priorities -10, 0 and 10 ran for one event, inline and
\* background ones among them, one under "both" and one under the own direction
C4_Witness ==
    /\ Handled
    /\ \E i, j, k \in 1..Len(Calls) :
          /\ i < j /\ j < k
          /\ Calls[i].priority = LISTENER_HIGH_PRIORITY /\ Calls[i].inline
          /\ Calls[j].priority = LISTENER_NORMAL_PRIORITY
          /\ Calls[k].priority = LISTENER_LOW_PRIORITY /\ ~Calls[k].inline
          /\ Calls[k].direction = "both" /\ Calls[j].direction = "in"

\* the event in force before the i-th listener call: the latest replacement
\* an inline listener returned, else the event handle was given
CurrentBefore(i) ==
    LET ks == {k \in 1..(i - 1) : Calls[k].ret # << >>}
    IN  IF ks = {} THEN AttachLevel(trace.event)
        ELSE Calls[CHOOSE k \in ks : \A l \in ks : l <= k].ret[1]

\* C5: every listener and the command and admin routers receive the latest
\* replacement returned by an earlier inline listener, and the event as it
\* was when no replacement was returned.
C5_ReplacementReachesLaterConsumers ==
    Handled =>
        /\ \A i \in 1..Len(Calls) : Calls[i].event = CurrentBefore(i)
        /\ trace.final_event = <<CurrentBefore(Len(Calls) + 1)>>
        /\ \A c \in 1..Len(trace.command_calls) :
              trace.command_calls[c].event = CurrentBefore(Len(Calls) + 1)
        /\ \A a \in 1..Len(trace.admin_calls) :
              trace.admin_calls[a].event = CurrentBefore(Len(Calls) + 1)

\* an inline listener replaced the event, a later listener and a command got
\* the replacement, and another inline listener returned nothing
C5_Witness ==
    /\ Handled
    /\ \E i, j \in 1..Len(Calls) :
          /\ i < j
          /\ Calls[i].ret # << >>
          /\ Calls[i].ret[1] # Calls[i].event
          /\ Calls[j].event = Calls[i].ret[1]
          /\ Calls[j].inline /\ Calls[j].ret = << >>
    /\ trace.command_calls # << >>
    /\ trace.command_calls[1].event # AttachLevel(trace.event)

\* the keys of the index under which a handler is registered and which match
\* the given event
MatchingKeys(handler, event) ==
    {k \in (DOMAIN listeners) \X {"both", event.direction} \X {"all", event.verb} :
        \E b \in BOOLEAN : InSeq(<<handler, b>>, IndexList(k[1], k[2], k[3]))}

\* C6: within one handle(event) no handler is invoked twice, however many
\* matching keys it is registered under and whether inline or not.
C6_HandlerCalledOnce ==
    Handled => \A i, j \in 1..Len(Calls) : i # j => Calls[i].handler # Calls[j].handler

\* a called handler is registered under several matching keys, at several
\* priorities, and another one both as inline and as background listener
C6_Witness ==
    /\ Handled
    /\ \E i \in 1..Len(Calls) :
          /\ Cardinality(MatchingKeys(Calls[i].handler, Calls[i].event)) >= 2
          /\ Cardinality({k[1] : k \in MatchingKeys(Calls[i].handler, Calls[i].event)}) >= 2
    /\ \E i \in 1..Len(Calls) :
          \E k1, k2 \in MatchingKeys(Calls[i].handler, Calls[i].event) :
              /\ InSeq(<<Calls[i].handler, TRUE>>, IndexList(k1[1], k1[2], k1[3]))
              /\ InSeq(<<Calls[i].handler, FALSE>>, IndexList(k2[1], k2[2], k2[3]))

\* C7: no command or admin command is started for a caller whose resolved
\* level is below its call level, on the text path, the global admin path and
\* the module admin path; a caller without account has the lowest level.
C7_NoCallBelowCallLevel ==
    Handled =>
        /\ \A c \in 1..Len(trace.command_calls) :
              LET call == trace.command_calls[c]
              IN  /\ UserLevel(call.event.source) >= call.info.call_level
                  /\ Account(call.event.source) = "none"
                        => call.info.call_level <= USER_LEVEL_NOPRIVS
        /\ \A a \in 1..Len(trace.admin_calls) :
              LET call == trace.admin_calls[a]
              IN  /\ UserLevel(call.event.source) >= call.info.call_level
                  /\ Account(call.event.source) = "none"
                        => call.info.call_level <= USER_LEVEL_NOPRIVS

\* a caller with an account of middle level was refused a command and was
\* allowed another one in the same pass
C7_Witness ==
    /\ Handled
    /\ trace.no_privs > 0
    /\ trace.command_calls # << >>
    /\ UserLevel(trace.command_calls[1].event.source) = USER_LEVEL_USER

\* C8: a command with a channel mode restriction is dispatched only in a
\* channel and only to a caller holding at least that mode there.
C8_ModeRestriction ==
    Handled =>
        \A c \in 1..Len(trace.command_calls) :
            LET call == trace.command_calls[c]
            IN  call.info.channel_mode_restriction # << >> =>
                  /\ IsChannel(call.event.target)
                  /\ call.event.source \in trace.members[call.event.target]
                  /\ ModeRank(ModeOf(call.event.target, call.event.source))
                        >= ModeRank(call.info.channel_mode_restriction)

\* an operator was served a command restricted to mode o
C8_Witness ==
    /\ Handled
    /\ \E c \in 1..Len(trace.command_calls) :
          /\ trace.command_calls[c].info.channel_mode_restriction = <<"o">>
          /\ ModeOf(trace.command_calls[c].event.target,
                    trace.command_calls[c].event.source) = <<"o">>

\* the message the router saw names a command
RoutedText ==
    /\ trace.command_routed
    /\ StartsWith(trace.final_event[1].message, command_prefix)
    /\ Strip(SubSeq(trace.final_event[1].message, Len(command_prefix) + 1,
                     Len(trace.final_event[1].message))) # << >>

\* C9: in one routing pass no handler is dispatched twice, whichever entries
\* share it, and a handler whose entry passes the gates is dispatched.
C9_OneDispatchPerHandler ==
    Handled =>
        /\ \A c, d \in 1..Len(trace.command_calls) :
              c # d => trace.command_calls[c].call # trace.command_calls[d].call
        /\ RoutedText =>
              \A n \in DOMAIN modules :
                  (/\ <<"*">> \in DOMAIN modules[n].commands
                   /\ UserLevel(trace.final_event[1].source)
                         >= modules[n].commands[<<"*">>].call_level
                   /\ modules[n].commands[<<"*">>].channel_mode_restriction = << >>
                   /\ modules[n].commands[<<"*">>].channel_whitelist = << >>)
                  => \E c \in 1..Len(trace.command_calls) :
                         trace.command_calls[c].call = modules[n].commands[<<"*">>].call

\* the wildcard and the named command of one module matched and share their
\* handler, which was dispatched, next to a handler of another module
C9_Witness ==
    /\ Handled
    /\ \E c \in 1..Len(trace.command_calls) :
          LET call == trace.command_calls[c]
              table == modules[call.module].commands
          IN  /\ call.key = <<"*">>
              /\ call.usercmd.command # <<"*">>
              /\ call.usercmd.command \in DOMAIN table
              /\ table[call.usercmd.command].call = call.call
              /\ UserLevel(call.event.source) >= table[call.usercmd.command].call_level

\* the whitelists a loaded command was declared with
Declared(module, key) ==
    LET cmds == ClassDef(modules[module].ident).cmds
    IN  cmds[CHOOSE i \in 1..Len(cmds) : cmds[i].name = key]

\* C10: a command that declares a non-empty channel or user whitelist is
\* dispatched only if the invoking channel is whitelisted, or the invoking
\* nick is in the user whitelist or is a member of a whitelisted channel.
C10_WhitelistRestricts ==
    Handled =>
        \A c \in 1..Len(trace.command_calls) :
            LET call == trace.command_calls[c]
                decl == Declared(call.module, call.key)
                chans == FoldStrings(decl.channel_whitelist, 1)
            IN  (decl.channel_whitelist # << >> \/ decl.user_whitelist # {}) =>
                  \/ InSeq(call.event.target, chans)
                  \/ call.event.source \in decl.user_whitelist
                  \/ \E i \in 1..Len(chans) : call.event.source \in trace.members[chans[i]]

(***************************************************************************)
(* Failure paths of unload, reload and load                                *)
(***************************************************************************)
\* C11: unload of an identifier that is not loaded reports failure, leaves
\* the module table, the identifier map, the listener index and the global
\* admin table as they were, and calls no module's unload() hook.
C11_UnloadOfUnknownChangesNothing ==
    [][(result'.op = "unload" /\ result'.name \notin DOMAIN whole_modules)
           => /\ result'.ret = "false"
              /\ reg' = reg
              /\ result'.hooks = << >>]_vars

\* an identifier that is not loaded was unloaded while other modules were
C11_Witness ==
    /\ result.op = "unload"
    /\ result.why = "notloaded"
    /\ result.name \notin DOMAIN whole_modules
    /\ DOMAIN modules # {}
    /\ DOMAIN listeners # {}

\* C12: reload is unload then load in that order; when the unload does not
\* succeed the reload reports failure, load is not attempted and the
\* registry is left as it was.
C12_ReloadIsUnloadThenLoad ==
    [][result'.op = "reload"
           => /\ result'.steps \in {<<"unload">>, <<"unload", "load">>}
              /\ result'.steps = <<"unload">>
                     => /\ result'.ret = "false"
                        /\ reg' = reg]_vars

\* C13: a load that ends in the unknown-standard-admin-command error leaves
\* nothing registered: the identifier is not in whole_modules, the module is
\* not in modules and none of its global admin commands is in the table.
C13_FatalLoadRegistersNothing ==
    (result.op = "load" /\ result.why = "standard")
        => /\ result.name \notin DOMAIN whole_modules
           /\ \A m \in DOMAIN modules : modules[m].ident # result.name
           /\ \A k \in DOMAIN global_admin_commands :
                  \A j \in 1..Len(global_admin_commands[k]) :
                      global_admin_commands[k][j].call[1] # result.name

(***************************************************************************)
(* When the routers run and what they are given                            *)
(***************************************************************************)
\* C14: an event handed to the text or the admin router carries
\* source_account and source_user_level, also when it is the replacement an
\* inline listener returned.
C14_RoutedEventCarriesLevel ==
    (Handled /\ (trace.command_routed \/ trace.admin_routed))
        => /\ trace.final_event[1].source_account # "unset"
           /\ trace.final_event[1].source_user_level # -1

\* C15: a command handler is started only for an inbound privmsg or pubmsg,
\* an admin command handler only for an inbound privmsg; the routers run for
\* no other event.
C15_RoutersRunForInboundMessagesOnly ==
    Handled =>
        LET final == trace.final_event[1]
        IN  /\ \A i \in 1..Len(trace.command_calls) :
                   /\ trace.command_calls[i].event = final
                   /\ final.verb \in {"privmsg", "pubmsg"}
                   /\ final.direction = "in"
            /\ \A i \in 1..Len(trace.admin_calls) :
                   /\ trace.admin_calls[i].event = final
                   /\ final.verb = "privmsg"
                   /\ final.direction = "in"
            /\ trace.command_routed => (final.verb \in {"privmsg", "pubmsg"} /\ final.direction = "in")
            /\ trace.admin_routed => (final.verb = "privmsg" /\ final.direction = "in")

\* a public message holding an admin command the caller may run in private
C15_Witness ==
    /\ Handled
    /\ trace.final_event[1].verb = "pubmsg"
    /\ trace.command_routed
    /\ trace.admin_calls = << >>
    /\ handle_admin_command(modules, global_admin_commands, trace.final_event[1]).calls # << >>


(***************************************************************************)
(* The text command router: parsing and order                              *)
(***************************************************************************)
\* the text after the command prefix, stripped
TextAfterPrefix(event) ==
    Strip(SubSeq(event.message, Len(command_prefix) + 1, Len(event.message)))

\* position of the first character of s that is in seps, Len(s) + 1 if none
FirstSeparator(s, seps) ==
    IF \E k \in 1..Len(s) : s[k] \in seps
    THEN CHOOSE k \in 1..Len(s) : s[k] \in seps /\ \A j \in 1..(k - 1) : s[j] \notin seps
    ELSE Len(s) + 1

\* the command a message names when its text is cut at the first of seps
NamedCommand(event, seps) ==
    LET text == TextAfterPrefix(event)
        cut == FirstSeparator(text, seps)
    IN  [command |-> Lower(SubSeq(text, 1, cut - 1)),
         arguments |-> SubSeq(text, cut + 1, Len(text))]

\* a message without the prefix or with nothing after it dispatches nothing;
\* any other is cut at the first of seps into the case-folded name and the
\* remainder, which every handler receives, and only entries stored under
\* that name or under * are dispatched
TextDispatch(seps) ==
    (Handled /\ trace.command_routed) =>
        LET event == trace.final_event[1]
            named == NamedCommand(event, seps)
        IN  IF ~StartsWith(event.message, command_prefix) \/ TextAfterPrefix(event) = << >>
            THEN trace.command_calls = << >>
            ELSE \A i \in 1..Len(trace.command_calls) :
                     /\ trace.command_calls[i].usercmd = named
                     /\ trace.command_calls[i].key \in {<<"*">>, named.command}
                     /\ trace.command_calls[i].key \in
                            DOMAIN modules[trace.command_calls[i].module].commands

\* C16 as stated: a message without the prefix, or empty after it,
\* dispatches nothing; otherwise the text is cut at the first whitespace
\* into the case-folded name and the remainder, and only commands under that
\* name or under * are dispatched.
C16_SplitAtFirstWhitespace == TextDispatch(Whitespace)

\* C16 amended: the text is cut at the first space character; other
\* whitespace stays part of the command name.
C16_SplitAtFirstSpace == TextDispatch({" "})

\* "!C x" dispatched the command stored under c with the argument x
C16_Witness ==
    /\ Handled
    /\ trace.command_routed
    /\ \E i \in 1..Len(trace.command_calls) :
           /\ trace.command_calls[i].key = <<"c">>
           /\ trace.command_calls[i].usercmd = [command |-> <<"c">>, arguments |-> <<"x">>]
           /\ trace.final_event[1].message = <<"!", "C", " ", "x">>


\* 1 for the kind of entry examined first in a module, 2 for the other
KeyRank(key, wildcard_first) == IF (key = <<"*">>) = wildcard_first THEN 1 ELSE 2

\* the handlers of one routing pass were submitted module by module in
\* lexicographic order of the module names, and within one module the entry
\* of rank 1 before the entry of rank 2
SubmittedInOrder(wildcard_first) ==
    Handled =>
        \A i, j \in 1..Len(trace.command_calls) :
            i < j =>
                LET a == trace.command_calls[i]
                    b == trace.command_calls[j]
                IN  \/ StrLess(a.module, b.module)
                    \/ /\ a.module = b.module
                       /\ KeyRank(a.key, wildcard_first) < KeyRank(b.key, wildcard_first)

\* C17 as stated: modules are examined in lexicographic order of their
\* names, and within each module the literal command name before the
\* wildcard *; handlers are submitted in that order.
C17_LiteralBeforeWildcard == SubmittedInOrder(FALSE)

\* C17 amended: modules are examined in lexicographic order of their names,
\* and within each module the wildcard * before the literal command name.
C17_WildcardBeforeLiteral == SubmittedInOrder(TRUE)

\* one pass submitted the wildcard and the named handler of one module and
\* then a handler of a module that sorts later
C17_Witness ==
    /\ Handled
    /\ \E i, j, k \in 1..Len(trace.command_calls) :
           /\ i < j /\ j < k
           /\ trace.command_calls[i].module = trace.command_calls[j].module
           /\ trace.command_calls[i].key = <<"*">>
           /\ trace.command_calls[j].key # <<"*">>
           /\ StrLess(trace.command_calls[j].module, trace.command_calls[k].module)


(***************************************************************************)
(* The admin command router                                                *)
(***************************************************************************)
\* the name of the module an admin command handed to a handler belongs to:
\* a global one carries it, a module's own one sits in that module's table
OwnerOf(call) ==
    IF call.is_global THEN call.info.module_name
    ELSE CHOOSE m \in DOMAIN modules :
             \E k \in DOMAIN modules[m].admin_commands :
                 modules[m].admin_commands[k] = call.info

\* C18: an admin command with bound = FALSE is invoked with the module that
\* owns it as leading argument, one with bound = TRUE without a module
\* argument, for a module's own admin commands and for global ones.
C18_UnboundGetsOwningModule ==
    Handled =>
        \A i \in 1..Len(trace.admin_calls) :
            LET call == trace.admin_calls[i]
            IN  IF call.info.bound THEN call.module_arg = << >>
                ELSE call.module_arg = <<OwnerOf(call)>>


\* the admin message of the routed event cut at its first two spaces
AdminTokens(event) ==
    LET text == Strip(SubSeq(event.message, Len(admin_command_prefix) + 1, Len(event.message)))
        cut1 == FirstSeparator(text, {" "})
        after == SubSeq(text, cut1 + 1, Len(text))
        cut2 == FirstSeparator(after, {" "})
    IN  [text |-> text,
         first |-> Lower(SubSeq(text, 1, cut1 - 1)),
         after |-> after,
         second |-> Lower(SubSeq(after, 1, cut2 - 1)),
         rest |-> SubSeq(after, cut2 + 1, Len(after))]

RoutedAdmin ==
    /\ trace.admin_routed
    /\ StartsWith(trace.final_event[1].message, admin_command_prefix)
    /\ AdminTokens(trace.final_event[1]).text # << >>

\* the admin commands a routed admin message names, each with the command
\* name and the arguments its handler is to receive; at is the place of a
\* global one in its list (a list may hold equal entries), 0 for a module's own
AdminCandidates ==
    LET t == AdminTokens(trace.final_event[1])
        globals == IF t.first \in DOMAIN global_admin_commands
                   THEN {[info |-> global_admin_commands[t.first][i], is_global |-> TRUE,
                          at |-> i,
                          usercmd |-> [command |-> t.first, arguments |-> t.after]] :
                            i \in 1..Len(global_admin_commands[t.first])}
                   ELSE {}
        own == IF t.first \in DOMAIN modules /\ t.second \in DOMAIN modules[t.first].admin_commands
               THEN {[info |-> modules[t.first].admin_commands[t.second], is_global |-> FALSE,
                      at |-> 0,
                      usercmd |-> [command |-> t.second, arguments |-> t.rest]]}
               ELSE {}
    IN  IF RoutedAdmin THEN globals \cup own ELSE {}

\* C19: of an admin message (first, second, rest) the candidates are the
\* global admin commands registered under first, invoked with first as
\* command name and everything after first as arguments, and the admin
\* command second of the loaded module first, invoked with second and rest;
\* the candidates the caller may call are invoked so, and nothing else is.
C19_AdminCandidates ==
    Handled =>
        {[info |-> trace.admin_calls[i].info, is_global |-> trace.admin_calls[i].is_global,
          usercmd |-> trace.admin_calls[i].usercmd] : i \in 1..Len(trace.admin_calls)}
        = {[info |-> c.info, is_global |-> c.is_global, usercmd |-> c.usercmd] :
               c \in {d \in AdminCandidates :
                         UserLevel(trace.final_event[1].source) >= d.info.call_level}}

\* the text commands the routed message matches, as (module, key) pairs
TextMatches ==
    IF RoutedText
    THEN LET named == NamedCommand(trace.final_event[1], {" "})
         IN  {mk \in (DOMAIN modules) \X {<<"*">>, named.command} :
                  mk[2] \in DOMAIN modules[mk[1]].commands}
    ELSE {}

\* the matched commands the caller may not call
RefusedText ==
    {mk \in TextMatches :
         UserLevel(trace.final_event[1].source) < modules[mk[1]].commands[mk[2]].call_level}

RefusedAdmin ==
    {c \in AdminCandidates : UserLevel(trace.final_event[1].source) < c.info.call_level}

\* C20: every matched command the caller may not call costs one notice and
\* is not dispatched; a message that matches nothing gives no notice and no
\* dispatch; in neither case does an error reach the caller of handle.
C20_RefusalIsANoticeOnly ==
    Handled =>
        /\ trace.no_privs = Cardinality(RefusedText) + Cardinality(RefusedAdmin)
        /\ (RefusedText \cup RefusedAdmin # {} \/ TextMatches \cup AdminCandidates = {})
               => ~trace.raised
        /\ \A i \in 1..Len(trace.command_calls) :
               <<trace.command_calls[i].module, trace.command_calls[i].key>> \notin RefusedText
        /\ \A i \in 1..Len(trace.admin_calls) :
               \A c \in RefusedAdmin : trace.admin_calls[i].info # c.info
        /\ (TextMatches = {} /\ AdminCandidates = {})
               => (trace.command_calls = << >> /\ trace.admin_calls = << >>)


(***************************************************************************)
(* The tables of a loaded module                                           *)
(***************************************************************************)
\* module m declares admin command a in the global admin table
InGlobalTable(m, a) ==
    /\ a.name \in DOMAIN global_admin_commands
    /\ \E i \in 1..Len(global_admin_commands[a.name]) :
           /\ global_admin_commands[a.name][i].call = H(modules[m].ident, a.fn)
           /\ global_admin_commands[a.name][i].module_name = m

\* module m holds admin command a in its own table
InOwnTable(m, a) ==
    /\ a.name \in DOMAIN modules[m].admin_commands
    /\ modules[m].admin_commands[a.name].call = H(modules[m].ident, a.fn)

\* C21: of a loaded module every global admin command is in the global
\* table under its name, tagged with the module's name, and not in the
\* module's own table; every other admin command is in the own table and not
\* in the global one; the global table holds entries of loaded modules only.
C21_GlobalTableMatchesLoadedModules ==
    /\ \A m \in DOMAIN modules :
           LET acmds == ClassDef(modules[m].ident).acmds
           IN  \A i \in 1..Len(acmds) :
                   IF acmds[i].global
                   THEN InGlobalTable(m, acmds[i]) /\ ~InOwnTable(m, acmds[i])
                   ELSE InOwnTable(m, acmds[i]) /\ ~InGlobalTable(m, acmds[i])
    /\ \A k \in DOMAIN global_admin_commands :
           \A i \in 1..Len(global_admin_commands[k]) :
               \E m \in DOMAIN modules :
                   /\ global_admin_commands[k][i].module_name = m
                   /\ global_admin_commands[k][i].call[1] = modules[m].ident


\* C22: no (priority, direction, event type) key of the listener index and
\* of a module's listener table holds the same (handler, inline) tuple
\* twice, also when a handler declares one listener binding more than once.
C22_NoTupleTwiceUnderOneKey ==
    /\ \A p \in DOMAIN listeners : \A d \in DOMAIN listeners[p] :
           \A e \in DOMAIN listeners[p][d] :
               \A i, j \in 1..Len(listeners[p][d][e]) :
                   i # j => listeners[p][d][e][i] # listeners[p][d][e][j]
    /\ \A m \in DOMAIN modules : \A d \in DOMAIN modules[m].events :
           \A e \in DOMAIN modules[m].events[d] :
               \A i, j \in 1..Len(modules[m].events[d][e]) :
                   i # j => modules[m].events[d][e][i] # modules[m].events[d][e][j]


(***************************************************************************)
(* The lifecycle hooks of a module                                         *)
(***************************************************************************)
\* C25: a module registered by a successful load or reload has its load()
\* hook called after the registration.
C25_LoadHookAfterRegistration ==
    (result.op \in {"load", "reload"} /\ result.ret = "true")
        => \A i \in 1..Len(whole_modules[result.name]) :
               \E h \in 1..Len(result.hooks) :
                   /\ result.hooks[h].hook = "load"
                   /\ result.hooks[h].module = whole_modules[result.name][i]

\* C30: a successful unload(X) calls the teardown hook of each module of X
\* once, when the module's global admin entries and listeners are gone from
\* the registry and the module is still in the live table; afterwards the
\* modules are dropped and X is out of the identifier map.
C30_TeardownAfterRemovalBeforeDrop ==
    [][(result'.op = "unload" /\ result'.ret = "true")
           => /\ Len(result'.hooks) = Len(whole_modules[result'.name])
              /\ \A i \in 1..Len(result'.hooks) :
                     /\ result'.hooks[i].hook = "unload"
                     /\ result'.hooks[i].module = whole_modules[result'.name][i]
                     /\ ~result'.hooks[i].globals_left
                     /\ ~result'.hooks[i].listeners_left
                     /\ result'.hooks[i].registered
                     /\ result'.hooks[i].mapped
                     /\ result'.hooks[i].module \notin DOMAIN modules'
              /\ result'.name \notin DOMAIN whole_modules']_vars

\* a module with listeners and a global admin command was unloaded while
\* another module stayed loaded
C30_Witness ==
    /\ result.op = "unload"
    /\ result.ret = "true"
    /\ Len(result.hooks) = 1
    /\ MemberListens(ListenerMembers(result.name), 1) # << >>
    /\ \E i \in 1..Len(ClassDef(result.name).acmds) : ClassDef(result.name).acmds[i].global
    /\ DOMAIN modules # {}


(***************************************************************************)
(* What an unload leaves of the other modules                              *)
(***************************************************************************)
\* the loaded modules that are not modules of identifier name
OtherModules(name) ==
    {m \in DOMAIN modules : ~InSeq(m, whole_modules[name])}

\* the entries of a listener list whose handler belongs to an instance in idents
ListenersOf(entries, idents) ==
    LET Owned(t) == t[1][1] \in idents
    IN  SelectSeq(entries, Owned)

\* the entries of a global admin list whose handler belongs to an instance in idents
GlobalsOf(entries, idents) ==
    LET Owned(g) == g.call[1] \in idents
    IN  SelectSeq(entries, Owned)

\* the list under (priority, direction, event_name) of an index, empty when
\* the index has no such key
ListAt(lst, p, d, e) ==
    IF p \in DOMAIN lst /\ d \in DOMAIN lst[p] /\ e \in DOMAIN lst[p][d]
    THEN lst[p][d][e] ELSE << >>

\* C27: unload(X) of a loaded identifier removes only what the modules of X
\* added: every other loaded module and identifier stays as it was, and under
\* every key the listener entries and the global admin entries of the other
\* loaded modules are still there in the same relative order.
C27_UnloadKeepsOtherModules ==
    [][(result'.op = "unload" /\ result'.name \in DOMAIN whole_modules)
           => LET others == OtherModules(result'.name)
                  idents == {modules[m].ident : m \in others}
              IN  /\ \A m \in others : m \in DOMAIN modules' /\ modules'[m] = modules[m]
                  /\ \A y \in (DOMAIN whole_modules) \ {result'.name} :
                         y \in DOMAIN whole_modules' /\ whole_modules'[y] = whole_modules[y]
                  /\ \A p \in DOMAIN listeners : \A d \in DOMAIN listeners[p] :
                     \A e \in DOMAIN listeners[p][d] :
                         ListenersOf(ListAt(listeners', p, d, e), idents)
                             = ListenersOf(listeners[p][d][e], idents)
                  /\ \A k \in DOMAIN global_admin_commands :
                         /\ k \in DOMAIN global_admin_commands'
                         /\ GlobalsOf(global_admin_commands'[k], idents)
                                = GlobalsOf(global_admin_commands[k], idents)]_vars

\* after a successful unload another loaded module still has a listener under
\* a key the unloaded module listened on too, and a global admin command under
\* a name the unloaded module registered too
C27_Witness ==
    /\ result.op = "unload"
    /\ result.ret = "true"
    /\ \E m \in DOMAIN modules :
           \E i \in 1..Len(MemberListens(ListenerMembers(result.name), 1)) :
               LET l == MemberListens(ListenerMembers(result.name), 1)[i]
               IN  \E j \in 1..Len(ListAt(listeners, l.priority, l.direction, l.event_type)) :
                       ListAt(listeners, l.priority, l.direction, l.event_type)[j][1][1]
                           = modules[m].ident
    /\ \E m \in DOMAIN modules :
           \E i \in 1..Len(ClassDef(result.name).acmds) :
               LET a == ClassDef(result.name).acmds[i]
               IN  /\ a.global
                   /\ a.name \in DOMAIN global_admin_commands
                   /\ \E j \in 1..Len(global_admin_commands[a.name]) :
                          global_admin_commands[a.name][j].call[1] = modules[m].ident


(***************************************************************************)
(* Dispatch and the registered descriptors                                 *)
(***************************************************************************)
\* C28: a command restricted to channels is expanded with the members the
\* channels have at the invocation: a caller who is not a member now, is not
\* in the declared user whitelist and does not call from a whitelisted
\* channel is not served, whatever was invoked before.
C28_WhitelistUsesCurrentMembers ==
    Handled =>
        \A c \in 1..Len(trace.command_calls) :
            LET call == trace.command_calls[c]
                decl == Declared(call.module, call.key)
                chans == FoldStrings(decl.channel_whitelist, 1)
            IN  decl.channel_whitelist # << >> =>
                    \/ InSeq(call.event.target, chans)
                    \/ call.event.source \in decl.user_whitelist
                    \/ call.event.source \in ChannelUsers(trace.members, chans, 1)

\* C29: a handle changes neither the listener index, nor the global admin
\* table, nor any descriptor of a loaded module.
C29_HandleLeavesRegistry ==
    [][result'.op = "handle"
           => UNCHANGED <<listeners, global_admin_commands, modules>>]_vars


(***************************************************************************)
(* Privilege level tokens                                                  *)
(***************************************************************************)
\* the commands and admin commands of the live tables
LiveCommands ==
    UNION {{modules[m].commands[k] : k \in DOMAIN modules[m].commands}
           : m \in DOMAIN modules}

LiveAdminCommands ==
    UNION {{modules[m].admin_commands[k] : k \in DOMAIN modules[m].admin_commands}
           : m \in DOMAIN modules}
      \cup UNION {{global_admin_commands[k][i] : i \in 1..Len(global_admin_commands[k])}
                  : k \in DOMAIN global_admin_commands}

\* C26: no command of a live table has a call level whose token was not
\* resolved to a number: a descriptor with an unrecognised token makes its
\* load fail and registers nothing.
C26_NoUnresolvedLevelInLiveTables ==
    /\ \A c \in LiveCommands : c.call_level_token = ""
    /\ \A a \in LiveAdminCommands : a.call_level_token = ""


(***************************************************************************)
(* Dispatch and the threads it starts                                      *)
(***************************************************************************)
\* C23: a load, unload or reload done by the module command in its thread
\* never makes a handle that is under way fail.
C23_DispatchUnharmedByModuleCommand ==
    ~(result.op = "handle" /\ result.ret = "raised" /\ result.why = "KeyError")

\* the tasks a step of a handle started
StartedBy(log, old_log, command_calls, admin_calls) ==
    {log[i].handler : i \in {j \in (Len(old_log) + 1)..Len(log) : ~log[j].inline}}
        \cup {command_calls[i].call : i \in 1..Len(command_calls)}
        \cup {admin_calls[i].call : i \in 1..Len(admin_calls)}

\* what a handle that nothing interleaves with does for the event
Undisturbed ==
    \E ret \in [InlineHandlers(listeners) -> ReturnKinds] :
        trace = HandleResult(Registry, members, trace.event, ret).trace

\* C24: the tasks a handle starts are running, not waited for, when the
\* handle goes on; and whatever tasks ended, failed or are still running, a
\* handle calls every listener of the event and runs the routers exactly as
\* a handle does alone.
C24_TasksAreFireAndForget ==
    /\ [][/\ (dispatch # << >> /\ dispatch' # << >> /\ dispatch'[1].event = dispatch[1].event)
              => \A c \in StartedBy(dispatch'[1].st.log, dispatch[1].st.log, << >>, << >>) :
                     [call |-> c, status |-> "running", todo |-> << >>] \in threads'
          /\ (dispatch # << >> /\ result'.op = "handle")
              => \A c \in StartedBy(<< >>, << >>, trace'.command_calls, trace'.admin_calls) :
                     [call |-> c, status |-> "running", todo |-> << >>] \in threads']_vars
    /\ [](Handled => Undisturbed)

\* a handle called listeners and a command while a task of an earlier event
\* had failed and another was still running
C24_Witness ==
    /\ Handled
    /\ Len(trace.listener_calls) >= 2
    /\ trace.command_calls # << >>
    /\ \E t \in threads : t.status = "failed" /\ t.call \notin StartedBy(trace.listener_calls, << >>, trace.command_calls, trace.admin_calls)
    /\ \E t \in threads : t.status = "running" /\ t.call \notin StartedBy(trace.listener_calls, << >>, trace.command_calls, trace.admin_calls)


(***************************************************************************)
(* The identifier map and the live module table                            *)
(***************************************************************************)
\* the identifiers that list module name m
IdentifiersOf(m) == {x \in DOMAIN whole_modules : InSeq(m, whole_modules[x])}

\* C35: the module names listed in whole_modules are the keys of modules,
\* every module name is listed once under one identifier, and no identifier
\* maps to an empty list.
C35_IdentifierMapMatchesModules ==
    /\ UNION {{whole_modules[x][i] : i \in 1..Len(whole_modules[x])}
              : x \in DOMAIN whole_modules} = DOMAIN modules
    /\ \A m \in DOMAIN modules :
           /\ Cardinality(IdentifiersOf(m)) = 1
           /\ \A x \in IdentifiersOf(m) :
                  Cardinality({i \in 1..Len(whole_modules[x]) : whole_modules[x][i] = m}) = 1
    /\ \A x \in DOMAIN whole_modules : whole_modules[x] # << >>

(***************************************************************************)
(* The event a dispatch matches its listeners with                         *)
(***************************************************************************)
\* C37: once an inline listener has returned a replacement, every listener
\* called later in the same dispatch was found under a direction key and an
\* event type key of the replacement, and the routers run exactly when the
\* replacement is an inbound message (the admin router: an inbound private
\* message).
C37_MatchingFollowsReplacement ==
    (Handled /\ ~trace.type_error) =>
        /\ \A i \in 1..Len(Calls) :
               /\ Calls[i].direction \in {"both", CurrentBefore(i).direction}
               /\ Calls[i].type \in {"all", CurrentBefore(i).verb}
        /\ trace.command_routed = IsInboundMessage(CurrentBefore(Len(Calls) + 1))
        /\ trace.admin_routed = IsInboundPrivate(CurrentBefore(Len(Calls) + 1))


(***************************************************************************)
(* A reload that reports failure                                           *)
(***************************************************************************)
\* C36: after a reload of X that reports failure the registry is unchanged
\* (X was not loaded) or is the registry unload(X) alone leaves (the unload
\* succeeded and the load failed).
C36_FailedReloadIsUnloadOrNothing ==
    [][(result'.op = "reload" /\ result'.ret = "false")
           => IF result'.name \notin DOMAIN whole_modules
              THEN reg' = reg
              ELSE SetRegistry(UnloadResult(Registry, result'.name).R)]_vars

(***************************************************************************)
(* Properties of the docstring reader                                      *)
(***************************************************************************)
\* the numbers the named levels stand for, from the highest to the lowest
NamedLevels == <<"highest", "higher", "high", "normal", "low", "lower", "lowest">>
LevelValues == [highest |-> 0 - 30, higher |-> 0 - 20, high |-> 0 - 10, normal |-> 0,
                low |-> 10, lower |-> 20, lowest |-> 30]

\* the tokens of a listen directive once its inline token is removed
Tokens(val) == SelectSeq(val, LAMBDA x : x \notin Blanks /\ x # "inline")

\* one, two or three tokens, the third a named level, at most one inline token
Resolvable(val) ==
    /\ Len(Tokens(val)) \in 1..3
    /\ Len(Tokens(val)) = 3 => Tokens(val)[3] \in DOMAIN LevelValues
    /\ Cardinality({i \in 1..Len(val) : val[i] = "inline"}) <= 1

ListenDirectives(doc) == SelectSeq(doc, LAMBDA line : line.name = "listen")

Resolves(info, val) ==
    LET t == Tokens(val)
    IN  /\ info.inline = InSeq("inline", val)
        /\ Len(t) = 1 => info.direction = "in" /\ info.event_type = t[1] /\ info.priority = 0
        /\ Len(t) = 2 => info.direction = t[1] /\ info.event_type = t[2] /\ info.priority = 0
        /\ Len(t) = 3 => /\ info.direction = t[1]
                         /\ info.event_type = t[2]
                         /\ info.priority = LevelValues[t[3]]

\* C31: a listen directive resolves, once its optional inline token is removed,
\* as: one token is the event type (direction in, priority 0); two tokens are
\* direction and event type (priority 0); three are direction, event type and
\* priority, the named levels highest to lowest standing for -30 to 30 in steps
\* of ten, so an earlier-named level sorts before a later-named one; the
\* descriptor is inline exactly when the inline token is present.
C31_ListenDirectiveResolution ==
    /\ \A i, j \in 1..Len(NamedLevels) :
           /\ listener_priorities[NamedLevels[i]] = LevelValues[NamedLevels[i]]
           /\ i < j => listener_priorities[NamedLevels[i]] < listener_priorities[NamedLevels[j]]
    /\ (extracted.done /\ extracted.name = << >>)
          => LET directives == ListenDirectives(extracted.doc)
             IN  (\A i \in 1..Len(directives) : Resolvable(directives[i].val))
                    => /\ extracted.out.ok
                       /\ Len(extracted.out.listeners) = Len(directives)
                       /\ \A i \in 1..Len(directives) :
                              Resolves(extracted.out.listeners[i], directives[i].val)

\* a docstring is read whose directives have one, two and three tokens, an
\* inline token after the direction among them
C31_Witness ==
    /\ extracted.done /\ extracted.name = << >> /\ extracted.out.ok
    /\ Len(extracted.out.listeners) = 2
    /\ extracted.out.listeners[1].inline
    /\ extracted.out.listeners[1].priority = listener_priorities["higher"]
    /\ extracted.out.listeners[2].direction = "in"
    /\ ~extracted.out.listeners[2].inline
    /\ Len(Words(extracted.doc[2].val)) = 1

\* the alias directives of a docstring that give the alias its own description
DescribedAliases(doc) ==
    {i \in 1..Len(doc) :
        /\ doc[i].name = "alias"
        /\ Cardinality({j \in 1..Len(doc[i].val) : doc[i].val[j] = "---"}) = 1}

AliasName(val) == StripBlanks(SubSeq(val, 1, FirstIndex(val, "---") - 1))
AliasDescription(val) == StripBlanks(SubSeq(val, FirstIndex(val, "---") + 1, Len(val)))

\* the last directive that describes the alias of directive i
LastOf(doc, i) ==
    \A j \in DescribedAliases(doc) : j > i => AliasName(doc[j].val) # AliasName(doc[i].val)

\* C33: an alias declared with its own description becomes a descriptor of its
\* own under the alias name: it has the handler of the canonical command, the
\* alias's description, and the canonical command's name as its base name and
\* as its alias-to-canonical link.
C33_AliasDescriptorLinksToCanonical ==
    (extracted.done /\ extracted.name # << >> /\ extracted.out.ok)
        => \A i \in DescribedAliases(extracted.doc) :
              LastOf(extracted.doc, i)
                 => LET alias_name == AliasName(extracted.doc[i].val)
                    IN  /\ alias_name \in DOMAIN extracted.commands
                        /\ extracted.commands[alias_name].call
                               = extracted.commands[extracted.name].call
                        /\ extracted.commands[alias_name].description
                               = <<AliasDescription(extracted.doc[i].val)>>
                        /\ extracted.commands[alias_name].base_name = extracted.name
                        /\ extracted.commands[alias_name].alias = extracted.name

(***************************************************************************)
(* Properties of the dynamic commands                                      *)
(***************************************************************************)
\* the names of the items of new_json whose key the module has not disabled
DynamicNames(module_name, new_json) ==
    UNION {{new_json[i].name[j] : j \in 1..Len(new_json[i].name)} :
              i \in {k \in 1..Len(new_json) :
                        new_json[k].key \notin Get(dynamic_commands_disabled, module_name, {})}}

\* the live table of the module is its static commands and the dynamic
\* commands of new_json that are not disabled, the static ones unreplaced
MergedTable(table, static, module_name, new_json) ==
    /\ DOMAIN table = DOMAIN static \cup DynamicNames(module_name, new_json)
    /\ \A k \in DOMAIN static : table[k] = static[k]
    /\ \A k \in DOMAIN table \ DOMAIN static :
           /\ table[k].call[2] = "combined"
           /\ \E i \in 1..Len(new_json) :
                  /\ InSeq(k, new_json[i].name)
                  /\ new_json[i].key \notin Get(dynamic_commands_disabled, module_name, {})
                  /\ table[k].call_level = LevelNumber(new_json[i].call_level)

\* C34: after a dynamic-command reload of a loaded module its live command
\* table is its static commands together with the commands of the new data
\* whose key is not disabled for the module; no static command is replaced, no
\* dynamic command of the old data stays, and the listener index, the admin
\* tables and the live module table are as before.
C34_DynamicReloadMergesCommands ==
    [][\A module_name \in DOMAIN modules, new_json \in DynamicData :
          JsonReload(module_name, new_json)
             => /\ MergedTable(modules'[module_name].commands,
                               modules[module_name].static_commands, module_name, new_json)
                /\ UNCHANGED <<listeners, global_admin_commands, whole_modules>>
                /\ DOMAIN modules' = DOMAIN modules
                /\ \A m \in DOMAIN modules :
                       /\ modules'[m].admin_commands = modules[m].admin_commands
                       /\ modules'[m].static_commands = modules[m].static_commands
                       /\ modules'[m].events = modules[m].events
                       /\ m # module_name => modules'[m] = modules[m]]_vars

(***************************************************************************)
(* Handlers with several listen directives                                 *)
(***************************************************************************)
\* the descriptor a listen directive gives when it is the only one
Alone(handler, directive) ==
    extract_mod_info_from_docstring(<<directive>>, << >>, handler).listeners[1]

\* the places of the index that hold a tuple of the handler
Places(lst, handler) ==
    UNION {UNION {UNION {{<<p, d, e, n>> : n \in {j \in 1..Len(lst[p][d][e]) :
                                                   lst[p][d][e][j][1] = handler}}
                         : e \in DOMAIN lst[p][d]}
                  : d \in DOMAIN lst[p]}
           : p \in DOMAIN lst}

\* every directive of the member has its own tuple in the index
AllRegistered(lst, ident, member) ==
    LET directives == ListenDirectives(member[2])
        key(j) == Alone(member[1], directives[j])
    IN  /\ Cardinality(Places(lst, H(ident, member[1]))) = Len(directives)
        /\ \A j \in 1..Len(directives) :
               Cardinality({pl \in Places(lst, H(ident, member[1])) :
                               /\ <<pl[1], pl[2], pl[3]>>
                                      = <<key(j).priority, key(j).direction, key(j).event_type>>
                               /\ lst[pl[1]][pl[2]][pl[3]][pl[4]][2] = key(j).inline})
                   = Cardinality({n \in 1..Len(directives) : key(n) = key(j)})

\* the descriptors of a docstring are those its directives give one by one
Independent(handler, doc) ==
    LET out == extract_mod_info_from_docstring(doc, << >>, handler)
        directives == ListenDirectives(doc)
    IN  /\ out.ok
        /\ Len(out.listeners) = Len(directives)
        /\ \A j \in 1..Len(directives) : out.listeners[j] = Alone(handler, directives[j])

\* C32: a handler with k listen directives has k descriptors, each with the
\* inline flag, direction, event type and priority of its own directive; a
\* successful load puts all k into the listener index, a successful unload
\* takes all k out, and an event that matches several of them still invokes
\* the handler once.
C32_EveryDirectiveItsOwnBinding ==
    /\ [][((result'.op = "load" /\ result'.ret = "true")
               => \A i \in 1..Len(ListenerMembers(result'.name)) :
                     AllRegistered(listeners', result'.name,
                                   ListenerMembers(result'.name)[i]))
           /\ ((result'.op = "unload" /\ result'.ret = "true")
                  => \A i \in 1..Len(whole_modules[result'.name]) :
                        \A t \in IndexTuples(listeners') :
                           t[1][1] # modules[whole_modules[result'.name][i]].ident)]_vars
    /\ [](/\ \A ident \in Idents : \A i \in 1..Len(ListenerMembers(ident)) :
                 Independent(ListenerMembers(ident)[i][1], ListenerMembers(ident)[i][2])
          /\ Handled
               => /\ \A i, j \in 1..Len(Calls) :
                         i # j => Calls[i].handler # Calls[j].handler
                  /\ (\A i \in 1..Len(Calls) : Calls[i].ret = << >>)
                        => \A t \in IndexTuples(listeners) :
                              MatchingKeys(t[1], trace.event) # {}
                                 => \E i \in 1..Len(Calls) : Calls[i].handler = t[1])

\* a handler with three directives has three tuples in the index; an event
\* matched two of them and the handler was invoked
C32_Witness ==
    /\ Handled
    /\ \E i \in 1..Len(Calls) :
          /\ Cardinality(Places(listeners, Calls[i].handler)) = 3
          /\ Cardinality(MatchingKeys(Calls[i].handler, trace.event)) = 2

====
